---- MODULE Spec2Model ----
(***************************************************************************)
(* EBDS serial protocol messages (crate ebds): framing, the MessageOps     *)
(* trait, the constructors of the concrete message types and the variant   *)
(* resolvers.  A byte is an integer in 0..255, a buffer is a sequence of   *)
(* bytes; the operators At/Put/Slice keep the zero-based indices of the    *)
(* source.                                                                 *)
(***************************************************************************)
EXTENDS Integers, Sequences, FiniteSets, TLC

\* ------------------------------------------------------------------------
\* Bytes and buffers
\* ------------------------------------------------------------------------

\* bit i of the byte b
Bit(b, i) == (b \div (2 ^ i)) % 2

\* a ^ b on u8, bit by bit
XorBits(a, b) ==
    ((Bit(a, 0) + Bit(b, 0)) % 2)
  + ((Bit(a, 1) + Bit(b, 1)) % 2) * 2
  + ((Bit(a, 2) + Bit(b, 2)) % 2) * 4
  + ((Bit(a, 3) + Bit(b, 3)) % 2) * 8
  + ((Bit(a, 4) + Bit(b, 4)) % 2) * 16
  + ((Bit(a, 5) + Bit(b, 5)) % 2) * 32
  + ((Bit(a, 6) + Bit(b, 6)) % 2) * 64
  + ((Bit(a, 7) + Bit(b, 7)) % 2) * 128

\* the same, tabulated
XorTable == [i \in 0..65535 |-> XorBits(i \div 256, i % 256)]

Xor(a, b) == XorTable[a * 256 + b]

\* buf[i]
At(buf, i) == buf[i + 1]

\* buf[i] = v
Put(buf, i, v) == SubSeq(buf, 1, i) \o <<v>> \o SubSeq(buf, i + 2, Len(buf))

\* buf[a..b]
Slice(buf, a, b) == SubSeq(buf, a + 1, b)

\* [0u8; n]
RECURSIVE Zeros(_)
Zeros(n) ==
    IF n = 0 THEN <<>>
    ELSE IF n = 1 THEN <<0>>
    ELSE Zeros(n \div 2) \o Zeros(n - (n \div 2))

\* is buf[i] inside the slice (an index outside it panics)
InBounds(buf, i) == i >= 0 /\ i < Len(buf)

\* ------------------------------------------------------------------------
\* Framing constants
\* ------------------------------------------------------------------------

STX == 2
ETX == 3

index_STX == 0
index_LEN == 1
index_CONTROL == 2
index_DATA == 3
index_EXT_SUBTYPE == 3

MIN_MESSAGE == 5
MAX_MESSAGE == 255

OMNIBUS_COMMAND == 8
OMNIBUS_REPLY == 11
BAUD_CHANGE_REQUEST == 6
BAUD_CHANGE_REPLY == 6
START_DOWNLOAD_COMMAND == 8
START_DOWNLOAD_REPLY == 11
FLASH_DOWNLOAD_MESSAGE_7BIT == 73
FLASH_DOWNLOAD_REPLY_7BIT == 9
FLASH_DOWNLOAD_MESSAGE_8BIT_64 == 71
FLASH_DOWNLOAD_MESSAGE_8BIT_32 == 39
FLASH_DOWNLOAD_REPLY_8BIT == 7
QUERY_DEVICE_CAPABILITIES_COMMAND == 8
QUERY_DEVICE_CAPABILITIES_REPLY == 11
QUERY_VARIANT_NAME_COMMAND == 8
QUERY_VARIANT_NAME_REPLY == 37
QUERY_EXTENDED_NOTE_SPECIFICATION == 10
EXTENDED_NOTE_REPLY == 30
SET_EXTENDED_NOTE_INHIBITS_BASE == 9
CFSC_ENABLE_LEN == 8
SC_ENABLE_LEN == 19
EXTENDED_NOTE_INHIBITS_REPLY_ALT == 12
QUERY_VALUE_TABLE_COMMAND == 9
QUERY_VALUE_TABLE_REPLY == 82
ADVANCED_BOOKMARK_MODE_COMMAND == 10
ADVANCED_BOOKMARK_MODE_REPLY == 13
QUERY_SOFTWARE_CRC_COMMAND == 8
QUERY_SOFTWARE_CRC_REPLY == 11
QUERY_BOOT_PART_NUMBER_COMMAND == 8
QUERY_BOOT_PART_NUMBER_REPLY == 14
QUERY_APPLICATION_PART_NUMBER_COMMAND == 8
QUERY_APPLICATION_PART_NUMBER_REPLY == 14
QUERY_APPLICATION_ID_REPLY == 14
QUERY_VARIANT_PART_NUMBER_COMMAND == 8
QUERY_VARIANT_PART_NUMBER_REPLY == 14
QUERY_VARIANT_ID_COMMAND == 8
QUERY_VARIANT_ID_REPLY == 14
CLEAR_AUDIT_DATA_REQUEST == 9
CLEAR_AUDIT_DATA_REQUEST_ACK == 13
CLEAR_AUDIT_DATA_REQUEST_RESULTS == 13
SOFT_RESET == 8
SET_ESCROW_TIMEOUT_COMMAND == 11
SET_ESCROW_TIMEOUT_REPLY == 12
NOTE_RETRIEVED_COMMAND == 10
NOTE_RETRIEVED_REPLY == 13
NOTE_RETRIEVED_EVENT == 13

\* ------------------------------------------------------------------------
\* checksum and the free validate_checksum
\* ------------------------------------------------------------------------

\* the XOR of data[lo..hi]; XOR is associative, so the halves may be folded
\* apart and joined
RECURSIVE ChecksumFold(_, _, _)
ChecksumFold(data, lo, hi) ==
    IF lo > hi THEN 0
    ELSE IF lo = hi THEN Xor(0, data[lo])
    ELSE LET mid == (lo + hi) \div 2
         IN Xor(ChecksumFold(data, lo, mid), ChecksumFold(data, mid + 1, hi))

\* data.iter().for_each(|b| sum ^= *b)
checksum(data) == ChecksumFold(data, 1, Len(data))

Ok == "Ok"
None == "None"
ErrReplyLength == "invalid reply length"
ErrStx == "invalid STX byte"
ErrEtx == "invalid ETX byte"
ErrMessageLength == "invalid message length"
ErrChecksum == "invalid checksum"
ErrMessageType == "invalid message type"
Panic == "panic: index out of bounds"

\* validate_checksum that compares nothing
validate_checksum_skip(buf) ==
    IF ~(Len(buf) >= MIN_MESSAGE /\ Len(buf) <= MAX_MESSAGE) THEN ErrMessageLength ELSE Ok

\* validate_checksum folding from the STX byte instead of the LEN byte
validate_checksum_with_stx(buf) ==
    LET len == Len(buf) IN
    IF ~(len >= MIN_MESSAGE /\ len <= MAX_MESSAGE) THEN ErrMessageLength
    ELSE LET etx_index == len - 2
             chk_index == len - 1
             csum == checksum(Slice(buf, index_STX, etx_index))
             exp == At(buf, chk_index)
         IN IF csum # exp THEN ErrChecksum ELSE Ok

\* the free function validate_checksum(buf)
validate_checksum(buf) ==
    LET len == Len(buf) IN
    IF ~(len >= MIN_MESSAGE /\ len <= MAX_MESSAGE) THEN ErrMessageLength
    ELSE LET etx_index == len - 2
             chk_index == len - 1
             csum == checksum(Slice(buf, index_LEN, etx_index))
             exp == At(buf, chk_index)
         IN IF csum # exp THEN ErrChecksum ELSE Ok

\* ------------------------------------------------------------------------
\* The 7-bit protocol: numbers carried in the low nibbles of bytes
\* ------------------------------------------------------------------------

\* a | b on u8, bit by bit
Or(a, b) ==
    LET o(k) == IF Bit(a, k) + Bit(b, k) > 0 THEN 1 ELSE 0
    IN o(0) + o(1) * 2 + o(2) * 4 + o(3) * 8 + o(4) * 16 + o(5) * 32 + o(6) * 64 + o(7) * 128

\* (x << k) on u8
Shl(x, k) == (x * (2 ^ k)) % 256

\* seven_bit_u16 taking the least significant nibble first
seven_bit_u16_le(b) ==
    LET hi == Or(Shl(At(b, 3) % 16, 4), At(b, 2) % 16)
        lo == Or(Shl(At(b, 1) % 16, 4), At(b, 0) % 16)
    IN hi * 256 + lo

\* seven_bit_u16(b)
seven_bit_u16(b) ==
    LET hi == Or(Shl(At(b, 0) % 16, 4), At(b, 1) % 16)
        lo == Or(Shl(At(b, 2) % 16, 4), At(b, 3) % 16)
    IN hi * 256 + lo

\* u16_seven_bit(n)
u16_seven_bit(n) ==
    LET b == <<n \div 256, n % 256>>
    IN <<At(b, 0) \div 16, At(b, 0) % 16, At(b, 1) \div 16, At(b, 1) % 16>>

\* seven_bit_u8(b)
seven_bit_u8(b) == Or(Shl(At(b, 0) % 16, 4), At(b, 1) % 16)

\* u8_seven_bit(n)
u8_seven_bit(n) == <<n \div 16, n % 16>>

\* ------------------------------------------------------------------------
\* Control byte (bitfield) and its enumerations
\* ------------------------------------------------------------------------

\* bitfield getter for the bit range msb..lsb of a u8
BitRange(self, msb, lsb) == (self \div (2 ^ lsb)) % (2 ^ (msb - lsb + 1))

\* bitfield setter: the value is shifted into place and masked to the field
SetBitRange(self, msb, lsb, value) ==
    LET width == 2 ^ (msb - lsb + 1)
        low == self % (2 ^ lsb)
        high == self \div (2 ^ (msb + 1))
    IN low + (value % width) * (2 ^ lsb) + high * (2 ^ (msb + 1))

\* Control built from the raw byte with bit 7 kept
Control_from_unmasked(b) == b

\* Control::from(u8)
Control_from(b) == b % 128

\* From<Control> for u8: the inner byte
Control_as_u8(c) == c

Control_acknak(c) == BitRange(c, 0, 0)
Control_device_type(c) == BitRange(c, 3, 1)
Control_message_type(c) == BitRange(c, 6, 4)
Control_set_acknak(c, v) == SetBitRange(c, 0, 0, v)
Control_set_device_type(c, v) == SetBitRange(c, 3, 1, v)
Control_set_message_type(c, v) == SetBitRange(c, 6, 4, v)

MessageTypes ==
    {"OmnibusCommand", "OmnibusReply", "OmnibusBookmark", "Calibrate",
     "FirmwareDownload", "AuxCommand", "Extended", "Reserved"}

\* MessageType::from(u8)
MessageType_from(b) ==
    LET v == b % 8 IN
    CASE v = 1 -> "OmnibusCommand"
      [] v = 2 -> "OmnibusReply"
      [] v = 3 -> "OmnibusBookmark"
      [] v = 4 -> "Calibrate"
      [] v = 5 -> "FirmwareDownload"
      [] v = 6 -> "AuxCommand"
      [] v = 7 -> "Extended"
      [] OTHER -> "Reserved"

\* message_type as u8
MessageType_as_u8(mt) ==
    CASE mt = "OmnibusCommand" -> 1
      [] mt = "OmnibusReply" -> 2
      [] mt = "OmnibusBookmark" -> 3
      [] mt = "Calibrate" -> 4
      [] mt = "FirmwareDownload" -> 5
      [] mt = "AuxCommand" -> 6
      [] mt = "Extended" -> 7
      [] OTHER -> 255

DeviceTypes == {"BillAcceptor", "BillRecycler", "Reserved"}

\* DeviceType::from(u8)
DeviceType_from(b) ==
    LET v == b % 8 IN
    CASE v = 0 -> "BillAcceptor"
      [] v = 1 -> "BillRecycler"
      [] OTHER -> "Reserved"

\* device_type as u8
DeviceType_as_u8(dt) ==
    CASE dt = "BillAcceptor" -> 0
      [] dt = "BillRecycler" -> 1
      [] OTHER -> 7

AckNaks == {"Ack", "Nak"}

\* AckNak::from(bool)
AckNak_from(b) == IF b = 1 THEN "Nak" ELSE "Ack"

\* bool::from(AckNak)
AckNak_as_bool(a) == IF a = "Nak" THEN 1 ELSE 0

ExtendedCommands ==
    {"ExtendedBarcodeReply", "ExtendedNoteSpecification", "SetExtendedNoteInhibits",
     "SetEscrowTimeout", "QueryValueTable", "NoteRetrieved", "AdvancedBookmark",
     "ClearAuditDataRequest", "Reserved"}

\* ExtendedCommand::from(u8)
ExtendedCommand_from(b) ==
    CASE b = 1 -> "ExtendedBarcodeReply"
      [] b = 2 -> "ExtendedNoteSpecification"
      [] b = 3 -> "SetExtendedNoteInhibits"
      [] b = 4 -> "SetEscrowTimeout"
      [] b = 6 -> "QueryValueTable"
      [] b = 11 -> "NoteRetrieved"
      [] b = 13 -> "AdvancedBookmark"
      [] b = 29 -> "ClearAuditDataRequest"
      [] OTHER -> "Reserved"

\* u8::from(ExtendedCommand)
ExtendedCommand_as_u8(e) ==
    CASE e = "ExtendedBarcodeReply" -> 1
      [] e = "ExtendedNoteSpecification" -> 2
      [] e = "SetExtendedNoteInhibits" -> 3
      [] e = "SetEscrowTimeout" -> 4
      [] e = "QueryValueTable" -> 6
      [] e = "NoteRetrieved" -> 11
      [] e = "AdvancedBookmark" -> 13
      [] e = "ClearAuditDataRequest" -> 29
      [] OTHER -> 255

AuxCommands ==
    {"QuerySoftwareCrc", "QueryBootPartNumber", "QueryApplicationPartNumber",
     "QueryVariantName", "QueryVariantPartNumber", "QueryDeviceCapabilities",
     "QueryApplicationId", "QueryVariantId", "SoftReset", "Reserved"}

\* AuxCommand::from(u8)
AuxCommand_from(b) ==
    CASE b = 0 -> "QuerySoftwareCrc"
      [] b = 6 -> "QueryBootPartNumber"
      [] b = 7 -> "QueryApplicationPartNumber"
      [] b = 8 -> "QueryVariantName"
      [] b = 9 -> "QueryVariantPartNumber"
      [] b = 13 -> "QueryDeviceCapabilities"
      [] b = 14 -> "QueryApplicationId"
      [] b = 15 -> "QueryVariantId"
      [] b = 127 -> "SoftReset"
      [] OTHER -> "Reserved"

\* u8::from(AuxCommand)
AuxCommand_as_u8(a) ==
    CASE a = "QuerySoftwareCrc" -> 0
      [] a = "QueryBootPartNumber" -> 6
      [] a = "QueryApplicationPartNumber" -> 7
      [] a = "QueryVariantName" -> 8
      [] a = "QueryVariantPartNumber" -> 9
      [] a = "QueryDeviceCapabilities" -> 13
      [] a = "QueryApplicationId" -> 14
      [] a = "QueryVariantId" -> 15
      [] a = "SoftReset" -> 127
      [] OTHER -> 255

\* ------------------------------------------------------------------------
\* MessageOps: the operations every message type inherits.  A message is
\* its buffer.
\* ------------------------------------------------------------------------

len(self) == Len(self)
etx_index(self) == Len(self) - 2
chk_index(self) == Len(self) - 1

\* init that stamps no ETX
init_no_etx(self) == Put(Put(self, index_STX, STX), index_LEN, len(self) % 256)

init(self) ==
    Put(Put(Put(self, index_STX, STX), index_LEN, len(self) % 256), etx_index(self), ETX)

is_empty(self) == checksum(self) = 0

acknak(self) == AckNak_from(Control_acknak(At(self, index_CONTROL)))

set_acknak(self, a) ==
    Put(self, index_CONTROL, Control_set_acknak(At(self, index_CONTROL), AckNak_as_bool(a)))

\* switch_acknak(): set_acknak(!self.acknak())
switch_acknak(self) ==
    Put(self, index_CONTROL,
        Control_set_acknak(At(self, index_CONTROL), 1 - AckNak_as_bool(acknak(self))))

device_type(self) == DeviceType_from(Control_device_type(At(self, index_CONTROL)))

set_device_type(self, dt) ==
    Put(self, index_CONTROL,
        Control_set_device_type(At(self, index_CONTROL), DeviceType_as_u8(dt)))

message_type(self) == MessageType_from(Control_message_type(At(self, index_CONTROL)))

\* set_message_type writing the whole control byte from the class alone
set_message_type_whole_byte(self, mt) ==
    Put(self, index_CONTROL, (MessageType_as_u8(mt) * 16) % 256)

set_message_type(self, mt) ==
    Put(self, index_CONTROL,
        Control_set_message_type(At(self, index_CONTROL), MessageType_as_u8(mt)))

checksum_bytes(self) == Slice(self, index_LEN, etx_index(self))

\* calculate_checksum that stores the checksum where the ETX byte is
calculate_checksum_at_etx(self) == Put(self, etx_index(self), checksum(checksum_bytes(self)))

\* calculate_checksum folding the ETX byte in as well
calculate_checksum_with_etx(self) ==
    Put(self, chk_index(self), checksum(Slice(self, index_LEN, etx_index(self) + 1)))

\* the buffer after calculate_checksum()
calculate_checksum(self) == Put(self, chk_index(self), checksum(checksum_bytes(self)))

\* the method MessageOps::validate_checksum(&self)
MessageOps_validate_checksum(self) ==
    LET expected == checksum(checksum_bytes(self))
        current == At(self, chk_index(self))
    IN IF expected = current THEN Ok ELSE ErrChecksum

\* as_bytes that hands out the buffer without computing the checksum
as_bytes_no_checksum(self) == self

\* the buffer after as_bytes(), which is also the slice it returns
as_bytes(self) == calculate_checksum(self)

\* from_buf that copies the slice before the class is compared
from_buf_copy_first(self, buf) ==
    IF Len(buf) < len(self) THEN [res |-> ErrReplyLength, buf |-> self]
    ELSE IF At(buf, index_STX) # STX THEN [res |-> ErrStx, buf |-> self]
    ELSE IF At(buf, index_LEN) # len(self) THEN [res |-> ErrReplyLength, buf |-> self]
    ELSE IF At(buf, len(self) - 2) # ETX THEN [res |-> ErrEtx, buf |-> self]
    ELSE IF validate_checksum(Slice(buf, 0, len(self))) # Ok
         THEN [res |-> validate_checksum(Slice(buf, 0, len(self))), buf |-> self]
    ELSE IF MessageType_from(Control_message_type(Control_from(At(buf, index_CONTROL))))
              # message_type(self)
         THEN [res |-> ErrMessageType, buf |-> Slice(buf, 0, len(self))]
    ELSE [res |-> Ok, buf |-> Slice(buf, 0, len(self))]

\* from_buf that does not compare the LEN byte with the size of the type
from_buf_no_len_check(self, buf) ==
    IF Len(buf) < len(self) THEN [res |-> ErrReplyLength, buf |-> self]
    ELSE IF At(buf, index_STX) # STX THEN [res |-> ErrStx, buf |-> self]
    ELSE IF At(buf, len(self) - 2) # ETX THEN [res |-> ErrEtx, buf |-> self]
    ELSE IF validate_checksum(Slice(buf, 0, len(self))) # Ok
         THEN [res |-> validate_checksum(Slice(buf, 0, len(self))), buf |-> self]
    ELSE IF MessageType_from(Control_message_type(Control_from(At(buf, index_CONTROL))))
              # message_type(self)
         THEN [res |-> ErrMessageType, buf |-> self]
    ELSE [res |-> Ok, buf |-> Slice(buf, 0, len(self))]

\* from_buf that validates the checksum before it looks at the ETX byte
from_buf_checksum_first(self, buf) ==
    IF Len(buf) < len(self) THEN [res |-> ErrReplyLength, buf |-> self]
    ELSE IF At(buf, index_STX) # STX THEN [res |-> ErrStx, buf |-> self]
    ELSE IF At(buf, index_LEN) # len(self) THEN [res |-> ErrReplyLength, buf |-> self]
    ELSE IF validate_checksum(Slice(buf, 0, len(self))) # Ok
         THEN [res |-> validate_checksum(Slice(buf, 0, len(self))), buf |-> self]
    ELSE IF At(buf, len(self) - 2) # ETX THEN [res |-> ErrEtx, buf |-> self]
    ELSE IF MessageType_from(Control_message_type(Control_from(At(buf, index_CONTROL))))
              # message_type(self)
         THEN [res |-> ErrMessageType, buf |-> self]
    ELSE [res |-> Ok, buf |-> Slice(buf, 0, len(self))]

\* from_buf that never validates the checksum
from_buf_no_checksum(self, buf) ==
    IF Len(buf) < len(self) THEN [res |-> ErrReplyLength, buf |-> self]
    ELSE IF At(buf, index_STX) # STX THEN [res |-> ErrStx, buf |-> self]
    ELSE IF At(buf, index_LEN) # len(self) THEN [res |-> ErrReplyLength, buf |-> self]
    ELSE IF At(buf, len(self) - 2) # ETX THEN [res |-> ErrEtx, buf |-> self]
    ELSE IF MessageType_from(Control_message_type(Control_from(At(buf, index_CONTROL))))
              # message_type(self)
         THEN [res |-> ErrMessageType, buf |-> self]
    ELSE [res |-> Ok, buf |-> Slice(buf, 0, len(self))]

\* MessageOps::from_buf(&mut self, buf): the result and the buffer afterwards
from_buf(self, buf) ==
    IF Len(buf) < len(self) THEN [res |-> ErrReplyLength, buf |-> self]
    ELSE IF ~InBounds(buf, index_STX) THEN [res |-> Panic, buf |-> self]
    ELSE IF At(buf, index_STX) # STX THEN [res |-> ErrStx, buf |-> self]
    ELSE IF ~InBounds(buf, index_LEN) THEN [res |-> Panic, buf |-> self]
    ELSE LET msg_len == At(buf, index_LEN) IN
    IF msg_len # len(self) THEN [res |-> ErrReplyLength, buf |-> self]
    ELSE IF ~InBounds(buf, msg_len - 2) THEN [res |-> Panic, buf |-> self]
    ELSE IF At(buf, msg_len - 2) # ETX THEN [res |-> ErrEtx, buf |-> self]
    ELSE IF msg_len > Len(buf) THEN [res |-> Panic, buf |-> self]
    ELSE LET vc == validate_checksum(Slice(buf, 0, msg_len)) IN
    IF vc # Ok THEN [res |-> vc, buf |-> self]
    ELSE LET msg_type == MessageType_from(Control_message_type(Control_from(At(buf, index_CONTROL))))
             exp_msg_type == message_type(self)
         IN
    IF msg_type # exp_msg_type THEN [res |-> ErrMessageType, buf |-> self]
    ELSE [res |-> Ok, buf |-> Slice(buf, 0, msg_len)]

\* ------------------------------------------------------------------------
\* Sub-type setters and the helpers the constructors call
\* ------------------------------------------------------------------------

extended_command_index_SUBTYPE == 3
aux_command_index_COMMAND == 5
omnibus_command_index_OPERATIONAL_MODE == 4
omnibus_command_index_CONFIGURATION == 5
note_retrieved_index_EVENT == 10
note_retrieved_EVENT == 127

set_extended_command(self, e) ==
    Put(self, extended_command_index_SUBTYPE, ExtendedCommand_as_u8(e))

extended_command(self) == ExtendedCommand_from(At(self, extended_command_index_SUBTYPE))

set_aux_command(self, a) == Put(self, aux_command_index_COMMAND, AuxCommand_as_u8(a))

aux_command(self) == AuxCommand_from(At(self, aux_command_index_COMMAND))

\* OperationalMode::from(u8), then set_escrow_mode (bit 4), written back at idx
set_escrow_mode_at(self, idx, v) ==
    Put(self, idx, SetBitRange(At(self, idx) % 128, 4, 4, v))

\* Configuration::from(u8), then set_extended_note (bit 4), written back at idx
set_extended_note_at(self, idx, v) ==
    Put(self, idx, SetBitRange(At(self, idx) % 64, 4, 4, v))

\* OmnibusCommandOps::set_escrow_mode of the plain omnibus command
set_escrow_mode(self, v) == set_escrow_mode_at(self, omnibus_command_index_OPERATIONAL_MODE, v)

\* set_extended_note of the extended commands (omnibus fields moved up by one)
set_extended_note(self, v) ==
    set_extended_note_at(self, omnibus_command_index_CONFIGURATION + 1, v)

\* SoftReset::set_reset_data
set_reset_data(self) == Put(Put(self, 3, 127), 4, 127)

\* bool_enum!: From<u8> of a set-or-unset enum reads bit 0
bool_enum_from(b) == IF b % 2 = 1 THEN "Set" ELSE "Unset"

clear_audit_index_ACKNAK == 10
clear_audit_index_PASS_FAIL == 10

\* ClearAuditDataRequestAck::audit_acknak
audit_acknak(self) == bool_enum_from(At(self, clear_audit_index_ACKNAK))

\* ClearAuditDataRequestResults::pass_fail
pass_fail(self) == bool_enum_from(At(self, clear_audit_index_PASS_FAIL))

\* ------------------------------------------------------------------------
\* The constructors: T::new() of every concrete message type
\* ------------------------------------------------------------------------

OmnibusCommand_new ==
    set_escrow_mode(set_message_type(init(Zeros(OMNIBUS_COMMAND)), "OmnibusCommand"), 1)

OmnibusReply_new ==
    set_message_type(init(Zeros(OMNIBUS_REPLY)), "OmnibusReply")

AdvancedBookmarkModeCommand_new ==
    set_extended_command(set_message_type(init(Zeros(ADVANCED_BOOKMARK_MODE_COMMAND)), "Extended"), "AdvancedBookmark")

AdvancedBookmarkModeReply_new ==
    set_extended_command(set_message_type(init(Zeros(ADVANCED_BOOKMARK_MODE_REPLY)), "Extended"), "AdvancedBookmark")

ClearAuditDataRequest_new ==
    set_extended_command(set_message_type(init(Zeros(CLEAR_AUDIT_DATA_REQUEST)), "Extended"), "ClearAuditDataRequest")

ClearAuditDataRequestAck_new ==
    set_extended_command(set_message_type(init(Zeros(CLEAR_AUDIT_DATA_REQUEST_ACK)), "Extended"), "ClearAuditDataRequest")

ClearAuditDataRequestResults_new ==
    set_extended_command(set_message_type(init(Zeros(CLEAR_AUDIT_DATA_REQUEST_RESULTS)), "Extended"), "ClearAuditDataRequest")

SetExtendedNoteInhibitsCFSC_new ==
    set_extended_command(set_extended_note(set_message_type(init(Zeros(SET_EXTENDED_NOTE_INHIBITS_BASE + CFSC_ENABLE_LEN)), "Extended"), 1), "SetExtendedNoteInhibits")

SetExtendedNoteInhibitsSC_new ==
    set_extended_command(set_extended_note(set_message_type(init(Zeros(SET_EXTENDED_NOTE_INHIBITS_BASE + SC_ENABLE_LEN)), "Extended"), 1), "SetExtendedNoteInhibits")

ExtendedNoteInhibitsReplyAlt_new ==
    set_extended_command(set_message_type(init(Zeros(EXTENDED_NOTE_INHIBITS_REPLY_ALT)), "Extended"), "SetExtendedNoteInhibits")

QueryExtendedNoteSpecification_new ==
    set_extended_note(set_extended_command(set_message_type(init(Zeros(QUERY_EXTENDED_NOTE_SPECIFICATION)), "Extended"), "ExtendedNoteSpecification"), 1)

ExtendedNoteReply_new ==
    set_extended_command(set_message_type(init(Zeros(EXTENDED_NOTE_REPLY)), "Extended"), "ExtendedNoteSpecification")

BaudRateChangeRequest_new ==
    set_message_type(init(Zeros(BAUD_CHANGE_REQUEST)), "FirmwareDownload")

BaudRateChangeReply_new ==
    set_message_type(init(Zeros(BAUD_CHANGE_REQUEST)), "FirmwareDownload")

FlashDownloadMessage7bit_new ==
    set_message_type(init(Zeros(FLASH_DOWNLOAD_MESSAGE_7BIT)), "FirmwareDownload")

FlashDownloadMessage8bit_64_new ==
    set_message_type(init(Zeros(FLASH_DOWNLOAD_MESSAGE_8BIT_64)), "FirmwareDownload")

FlashDownloadMessage8bit_32_new ==
    set_message_type(init(Zeros(FLASH_DOWNLOAD_MESSAGE_8BIT_32)), "FirmwareDownload")

FlashDownloadReply7bit_new ==
    set_message_type(init(Zeros(FLASH_DOWNLOAD_REPLY_7BIT)), "FirmwareDownload")

FlashDownloadReply8bit_new ==
    set_message_type(init(Zeros(FLASH_DOWNLOAD_REPLY_8BIT)), "FirmwareDownload")

StartDownloadCommand_new ==
    set_message_type(init(Zeros(START_DOWNLOAD_COMMAND)), "FirmwareDownload")

StartDownloadReply_new ==
    set_message_type(init(Zeros(START_DOWNLOAD_REPLY)), "FirmwareDownload")

NoteRetrievedCommand_new ==
    set_extended_command(set_message_type(init(Zeros(NOTE_RETRIEVED_COMMAND)), "Extended"), "NoteRetrieved")

NoteRetrievedReply_new ==
    set_extended_command(set_message_type(init(Zeros(NOTE_RETRIEVED_REPLY)), "Extended"), "NoteRetrieved")

NoteRetrievedEvent_new ==
    Put(set_extended_command(set_message_type(init(Zeros(NOTE_RETRIEVED_EVENT)), "Extended"), "NoteRetrieved"), note_retrieved_index_EVENT, note_retrieved_EVENT)

QueryApplicationPartNumberCommand_new ==
    set_aux_command(set_message_type(init(Zeros(QUERY_APPLICATION_PART_NUMBER_COMMAND)), "AuxCommand"), "QueryApplicationPartNumber")

QueryApplicationPartNumberReply_new ==
    set_message_type(init(Zeros(QUERY_APPLICATION_PART_NUMBER_REPLY)), "AuxCommand")

QueryBootPartNumberCommand_new ==
    set_aux_command(set_message_type(init(Zeros(QUERY_BOOT_PART_NUMBER_COMMAND)), "AuxCommand"), "QueryBootPartNumber")

QueryBootPartNumberReply_new ==
    set_message_type(init(Zeros(QUERY_BOOT_PART_NUMBER_REPLY)), "AuxCommand")

QueryDeviceCapabilitiesCommand_new ==
    set_aux_command(set_message_type(init(Zeros(QUERY_DEVICE_CAPABILITIES_COMMAND)), "AuxCommand"), "QueryDeviceCapabilities")

QueryDeviceCapabilitiesReply_new ==
    set_message_type(init(Zeros(QUERY_DEVICE_CAPABILITIES_REPLY)), "AuxCommand")

QuerySoftwareCrcCommand_new ==
    set_aux_command(set_message_type(init(Zeros(QUERY_SOFTWARE_CRC_COMMAND)), "AuxCommand"), "QuerySoftwareCrc")

QuerySoftwareCrcReply_new ==
    set_aux_command(set_message_type(init(Zeros(QUERY_SOFTWARE_CRC_REPLY)), "AuxCommand"), "QuerySoftwareCrc")

QueryValueTableCommand_new ==
    set_extended_command(set_message_type(init(Zeros(QUERY_VALUE_TABLE_COMMAND)), "Extended"), "QueryValueTable")

QueryValueTableReply_new ==
    set_extended_command(set_message_type(init(Zeros(QUERY_VALUE_TABLE_REPLY)), "Extended"), "QueryValueTable")

QueryVariantIdCommand_new ==
    set_aux_command(set_message_type(init(Zeros(QUERY_VARIANT_ID_COMMAND)), "AuxCommand"), "QueryVariantId")

QueryVariantIdReply_new ==
    set_message_type(init(Zeros(QUERY_VARIANT_ID_REPLY)), "AuxCommand")

QueryVariantNameCommand_new ==
    set_aux_command(set_message_type(init(Zeros(QUERY_VARIANT_NAME_COMMAND)), "AuxCommand"), "QueryVariantName")

QueryVariantNameReply_new ==
    set_message_type(init(Zeros(QUERY_VARIANT_NAME_REPLY)), "AuxCommand")

QueryVariantPartNumberCommand_new ==
    set_aux_command(set_message_type(init(Zeros(QUERY_VARIANT_PART_NUMBER_COMMAND)), "AuxCommand"), "QueryVariantPartNumber")

QueryVariantPartNumberReply_new ==
    set_message_type(init(Zeros(QUERY_VARIANT_PART_NUMBER_REPLY)), "AuxCommand")

SetEscrowTimeoutCommand_new ==
    set_extended_command(set_message_type(init(Zeros(SET_ESCROW_TIMEOUT_COMMAND)), "Extended"), "SetEscrowTimeout")

SetEscrowTimeoutReply_new ==
    set_extended_command(set_message_type(init(Zeros(SET_ESCROW_TIMEOUT_REPLY)), "Extended"), "SetEscrowTimeout")

SoftReset_new ==
    set_reset_data(set_aux_command(set_message_type(init(Zeros(SOFT_RESET)), "AuxCommand"), "SoftReset"))

\* QueryApplicationIdReply::new(): the module is referenced by the crate but
\* its source is absent; built like the other auxiliary replies
QueryApplicationIdReply_new ==
    set_message_type(init(Zeros(QUERY_APPLICATION_ID_REPLY)), "AuxCommand")

\* the concrete message types whose source is present
Types ==
    {"OmnibusCommand", "OmnibusReply", "AdvancedBookmarkModeCommand",
     "AdvancedBookmarkModeReply", "ClearAuditDataRequest", "ClearAuditDataRequestAck",
     "ClearAuditDataRequestResults", "SetExtendedNoteInhibitsCFSC", "SetExtendedNoteInhibitsSC",
     "ExtendedNoteInhibitsReplyAlt", "QueryExtendedNoteSpecification", "ExtendedNoteReply",
     "BaudRateChangeRequest", "BaudRateChangeReply", "FlashDownloadMessage7bit",
     "FlashDownloadMessage8bit_64", "FlashDownloadMessage8bit_32", "FlashDownloadReply7bit",
     "FlashDownloadReply8bit", "StartDownloadCommand", "StartDownloadReply",
     "NoteRetrievedCommand", "NoteRetrievedReply", "NoteRetrievedEvent",
     "QueryApplicationPartNumberCommand", "QueryApplicationPartNumberReply", "QueryBootPartNumberCommand",
     "QueryBootPartNumberReply", "QueryDeviceCapabilitiesCommand", "QueryDeviceCapabilitiesReply",
     "QuerySoftwareCrcCommand", "QuerySoftwareCrcReply", "QueryValueTableCommand",
     "QueryValueTableReply", "QueryVariantIdCommand", "QueryVariantIdReply",
     "QueryVariantNameCommand", "QueryVariantNameReply", "QueryVariantPartNumberCommand",
     "QueryVariantPartNumberReply", "SetEscrowTimeoutCommand", "SetEscrowTimeoutReply",
     "SoftReset"}

\* T::new(), by type name
New(t) ==
    CASE t = "OmnibusCommand" -> OmnibusCommand_new
      [] t = "OmnibusReply" -> OmnibusReply_new
      [] t = "AdvancedBookmarkModeCommand" -> AdvancedBookmarkModeCommand_new
      [] t = "AdvancedBookmarkModeReply" -> AdvancedBookmarkModeReply_new
      [] t = "ClearAuditDataRequest" -> ClearAuditDataRequest_new
      [] t = "ClearAuditDataRequestAck" -> ClearAuditDataRequestAck_new
      [] t = "ClearAuditDataRequestResults" -> ClearAuditDataRequestResults_new
      [] t = "SetExtendedNoteInhibitsCFSC" -> SetExtendedNoteInhibitsCFSC_new
      [] t = "SetExtendedNoteInhibitsSC" -> SetExtendedNoteInhibitsSC_new
      [] t = "ExtendedNoteInhibitsReplyAlt" -> ExtendedNoteInhibitsReplyAlt_new
      [] t = "QueryExtendedNoteSpecification" -> QueryExtendedNoteSpecification_new
      [] t = "ExtendedNoteReply" -> ExtendedNoteReply_new
      [] t = "BaudRateChangeRequest" -> BaudRateChangeRequest_new
      [] t = "BaudRateChangeReply" -> BaudRateChangeReply_new
      [] t = "FlashDownloadMessage7bit" -> FlashDownloadMessage7bit_new
      [] t = "FlashDownloadMessage8bit_64" -> FlashDownloadMessage8bit_64_new
      [] t = "FlashDownloadMessage8bit_32" -> FlashDownloadMessage8bit_32_new
      [] t = "FlashDownloadReply7bit" -> FlashDownloadReply7bit_new
      [] t = "FlashDownloadReply8bit" -> FlashDownloadReply8bit_new
      [] t = "StartDownloadCommand" -> StartDownloadCommand_new
      [] t = "StartDownloadReply" -> StartDownloadReply_new
      [] t = "NoteRetrievedCommand" -> NoteRetrievedCommand_new
      [] t = "NoteRetrievedReply" -> NoteRetrievedReply_new
      [] t = "NoteRetrievedEvent" -> NoteRetrievedEvent_new
      [] t = "QueryApplicationPartNumberCommand" -> QueryApplicationPartNumberCommand_new
      [] t = "QueryApplicationPartNumberReply" -> QueryApplicationPartNumberReply_new
      [] t = "QueryBootPartNumberCommand" -> QueryBootPartNumberCommand_new
      [] t = "QueryBootPartNumberReply" -> QueryBootPartNumberReply_new
      [] t = "QueryDeviceCapabilitiesCommand" -> QueryDeviceCapabilitiesCommand_new
      [] t = "QueryDeviceCapabilitiesReply" -> QueryDeviceCapabilitiesReply_new
      [] t = "QuerySoftwareCrcCommand" -> QuerySoftwareCrcCommand_new
      [] t = "QuerySoftwareCrcReply" -> QuerySoftwareCrcReply_new
      [] t = "QueryValueTableCommand" -> QueryValueTableCommand_new
      [] t = "QueryValueTableReply" -> QueryValueTableReply_new
      [] t = "QueryVariantIdCommand" -> QueryVariantIdCommand_new
      [] t = "QueryVariantIdReply" -> QueryVariantIdReply_new
      [] t = "QueryVariantNameCommand" -> QueryVariantNameCommand_new
      [] t = "QueryVariantNameReply" -> QueryVariantNameReply_new
      [] t = "QueryVariantPartNumberCommand" -> QueryVariantPartNumberCommand_new
      [] t = "QueryVariantPartNumberReply" -> QueryVariantPartNumberReply_new
      [] t = "SetEscrowTimeoutCommand" -> SetEscrowTimeoutCommand_new
      [] t = "SetEscrowTimeoutReply" -> SetEscrowTimeoutReply_new
      [] t = "SoftReset" -> SoftReset_new
      [] t = "QueryApplicationIdReply" -> QueryApplicationIdReply_new

\* the types that derive Default: their default value is the all-zero buffer
DeriveDefaultTypes ==
    {"QueryVariantNameCommand", "SetEscrowTimeoutReply", "BaudRateChangeRequest",
     "BaudRateChangeReply", "FlashDownloadReply7bit", "NoteRetrievedReply",
     "NoteRetrievedEvent", "QueryVariantIdCommand", "QueryBootPartNumberCommand",
     "QueryVariantPartNumberReply", "ClearAuditDataRequestAck", "ClearAuditDataRequestResults",
     "QueryApplicationPartNumberCommand", "QueryValueTableCommand"}

\* T::default(): derived (all zero) or impl_default! (Self::new())
Default(t) == IF t \in DeriveDefaultTypes THEN Zeros(Len(New(t))) ELSE New(t)

\* ------------------------------------------------------------------------
\* The variant resolvers
\* ------------------------------------------------------------------------

ErrAuxMessageType == "invalid message type: {msg_type}, expected: {exp_msg_type}"
ErrAuxReplyType == "invalid AuxCommand reply type"
ErrFirmwareLength == "unsupported FirmwareDownload reply message length"
ErrClearAuditReplyType == "invalid ClearAuditDataRequest reply type"
ErrNoteRetrievedLength == "invalid message length for a NoteRetrieved reply"
ErrAckNakEvent == "invalid AckNak/Event value"
ErrUnsupportedExtended == "unsupported extended message type"
ErrNotReply == "expected Omnibus or Extended reply types"

note_retrieved_index_ACKNAK == 10

\* Err(Error::failure(e))
Fail(e) == [res |-> e, variant |-> None, buf |-> <<>>]

\* the match arm that builds the variant T
Select(t) == [res |-> "T::new()", variant |-> t, buf |-> <<>>]

\* a decode that wraps the fresh message without calling from_buf
Decode_unvalidated(arm, buf) ==
    IF arm.res # "T::new()" THEN arm
    ELSE [res |-> Ok, variant |-> arm.variant, buf |-> New(arm.variant)]

\* the body of the arm taken: an error is returned as it is; for a variant
\* T, let mut msg = T::new(); msg.from_buf(buf)?; Ok(Self::T(msg))
Decode(arm, buf) ==
    IF arm.res # "T::new()" THEN arm
    ELSE LET r == from_buf(New(arm.variant), buf) IN
         IF r.res = Ok THEN [res |-> Ok, variant |-> arm.variant, buf |-> r.buf]
         ELSE Fail(r.res)

\* the aux resolver choosing the reply type from the slice length, the hint unread
ReplyVariant_from_aux_buf_match_by_len(buf, command) ==
    LET msg_len == Len(buf) IN
    IF ~(msg_len >= MIN_MESSAGE /\ msg_len <= MAX_MESSAGE) THEN Fail(ErrMessageLength)
    ELSE IF ~InBounds(buf, index_CONTROL) THEN Fail(Panic)
    ELSE LET msg_type == MessageType_from(Control_message_type(Control_from(At(buf, index_CONTROL))))
             exp_msg_type == "AuxCommand"
         IN
    IF msg_type # exp_msg_type THEN Fail(ErrAuxMessageType)
    ELSE CASE msg_len = QUERY_SOFTWARE_CRC_REPLY -> Select("QuerySoftwareCrcReply")
           [] msg_len = QUERY_BOOT_PART_NUMBER_REPLY -> Select("QueryBootPartNumberReply")
           [] msg_len = QUERY_VARIANT_NAME_REPLY -> Select("QueryVariantNameReply")
           [] OTHER -> Fail(ErrAuxReplyType)

\* the arm ReplyVariant::from_aux_buf(buf, command) takes
ReplyVariant_from_aux_buf_match(buf, command) ==
    LET msg_len == Len(buf) IN
    IF ~(msg_len >= MIN_MESSAGE /\ msg_len <= MAX_MESSAGE) THEN Fail(ErrMessageLength)
    ELSE IF ~InBounds(buf, index_CONTROL) THEN Fail(Panic)
    ELSE LET msg_type == MessageType_from(Control_message_type(Control_from(At(buf, index_CONTROL))))
             exp_msg_type == "AuxCommand"
         IN
    IF msg_type # exp_msg_type THEN Fail(ErrAuxMessageType)
    ELSE CASE command = "QuerySoftwareCrc" -> Select("QuerySoftwareCrcReply")
           [] command = "QueryBootPartNumber" -> Select("QueryBootPartNumberReply")
           [] command = "QueryApplicationPartNumber" ->
                 Select("QueryApplicationPartNumberReply")
           [] command = "QueryVariantName" -> Select("QueryVariantNameReply")
           [] command = "QueryVariantPartNumber" -> Select("QueryVariantPartNumberReply")
           [] command = "QueryDeviceCapabilities" ->
                 Select("QueryDeviceCapabilitiesReply")
           [] command = "QueryApplicationId" -> Select("QueryApplicationIdReply")
           [] command = "QueryVariantId" -> Select("QueryVariantIdReply")
           [] OTHER -> Fail(ErrAuxReplyType)

\* ReplyVariant::from_aux_buf(buf, command)
ReplyVariant_from_aux_buf(buf, command) ==
    Decode(ReplyVariant_from_aux_buf_match(buf, command), buf)

\* the Extended arm with the two ClearAuditDataRequest replies taken for each other
ReplyVariant_from_buf_extended_swapped(buf) ==
    IF ~InBounds(buf, index_EXT_SUBTYPE) THEN Fail(Panic)
    ELSE LET raw_sub_type == At(buf, index_EXT_SUBTYPE)
             sub_type == ExtendedCommand_from(raw_sub_type)
         IN
    CASE sub_type = "ClearAuditDataRequest" ->
            IF ~InBounds(buf, 10) THEN Fail(Panic)
            ELSE LET cad_reply_diff == At(buf, 10) IN
                 IF cad_reply_diff = 0 \/ cad_reply_diff = 1
                 THEN Select("ClearAuditDataRequestResults")
                 ELSE IF cad_reply_diff = 16 \/ cad_reply_diff = 17
                 THEN Select("ClearAuditDataRequestAck")
                 ELSE Fail(ErrClearAuditReplyType)
      [] sub_type = "ExtendedNoteSpecification" -> Select("ExtendedNoteReply")
      [] sub_type = "SetExtendedNoteInhibits" -> Select("ExtendedNoteInhibitsReplyAlt")
      [] sub_type = "QueryValueTable" -> Select("QueryValueTableReply")
      [] sub_type = "NoteRetrieved" ->
            IF Len(buf) < NOTE_RETRIEVED_REPLY THEN Fail(ErrNoteRetrievedLength)
            ELSE IF ~InBounds(buf, note_retrieved_index_ACKNAK) THEN Fail(Panic)
            ELSE LET acknak_event == At(buf, note_retrieved_index_ACKNAK) IN
                 IF acknak_event = 0 \/ acknak_event = 1
                 THEN Select("NoteRetrievedReply")
                 ELSE IF acknak_event = 127
                 THEN Select("NoteRetrievedEvent")
                 ELSE Fail(ErrAckNakEvent)
      [] sub_type = "AdvancedBookmark" -> Select("AdvancedBookmarkModeReply")
      [] OTHER -> Fail(ErrUnsupportedExtended)

\* the Extended arm with every unlisted NoteRetrieved byte 10 taken as the event
ReplyVariant_from_buf_extended_any_event(buf) ==
    IF ~InBounds(buf, index_EXT_SUBTYPE) THEN Fail(Panic)
    ELSE LET raw_sub_type == At(buf, index_EXT_SUBTYPE)
             sub_type == ExtendedCommand_from(raw_sub_type)
         IN
    CASE sub_type = "ClearAuditDataRequest" ->
            IF ~InBounds(buf, 10) THEN Fail(Panic)
            ELSE LET cad_reply_diff == At(buf, 10) IN
                 IF cad_reply_diff = 0 \/ cad_reply_diff = 1
                 THEN Select("ClearAuditDataRequestAck")
                 ELSE IF cad_reply_diff = 16 \/ cad_reply_diff = 17
                 THEN Select("ClearAuditDataRequestResults")
                 ELSE Fail(ErrClearAuditReplyType)
      [] sub_type = "ExtendedNoteSpecification" -> Select("ExtendedNoteReply")
      [] sub_type = "SetExtendedNoteInhibits" -> Select("ExtendedNoteInhibitsReplyAlt")
      [] sub_type = "QueryValueTable" -> Select("QueryValueTableReply")
      [] sub_type = "NoteRetrieved" ->
            IF Len(buf) < NOTE_RETRIEVED_REPLY THEN Fail(ErrNoteRetrievedLength)
            ELSE IF ~InBounds(buf, note_retrieved_index_ACKNAK) THEN Fail(Panic)
            ELSE LET acknak_event == At(buf, note_retrieved_index_ACKNAK) IN
                 IF acknak_event = 0 \/ acknak_event = 1
                 THEN Select("NoteRetrievedReply")
                 ELSE Select("NoteRetrievedEvent")
      [] sub_type = "AdvancedBookmark" -> Select("AdvancedBookmarkModeReply")
      [] OTHER -> Fail(ErrUnsupportedExtended)

\* the Extended arm of ReplyVariant::from_buf
ReplyVariant_from_buf_extended(buf) ==
    IF ~InBounds(buf, index_EXT_SUBTYPE) THEN Fail(Panic)
    ELSE LET raw_sub_type == At(buf, index_EXT_SUBTYPE)
             sub_type == ExtendedCommand_from(raw_sub_type)
         IN
    CASE sub_type = "ClearAuditDataRequest" ->
            IF ~InBounds(buf, 10) THEN Fail(Panic)
            ELSE LET cad_reply_diff == At(buf, 10) IN
                 IF cad_reply_diff = 0 \/ cad_reply_diff = 1
                 THEN Select("ClearAuditDataRequestAck")
                 ELSE IF cad_reply_diff = 16 \/ cad_reply_diff = 17
                 THEN Select("ClearAuditDataRequestResults")
                 ELSE Fail(ErrClearAuditReplyType)
      [] sub_type = "ExtendedNoteSpecification" -> Select("ExtendedNoteReply")
      [] sub_type = "SetExtendedNoteInhibits" -> Select("ExtendedNoteInhibitsReplyAlt")
      [] sub_type = "QueryValueTable" -> Select("QueryValueTableReply")
      [] sub_type = "NoteRetrieved" ->
            IF Len(buf) < NOTE_RETRIEVED_REPLY THEN Fail(ErrNoteRetrievedLength)
            ELSE IF ~InBounds(buf, note_retrieved_index_ACKNAK) THEN Fail(Panic)
            ELSE LET acknak_event == At(buf, note_retrieved_index_ACKNAK) IN
                 IF acknak_event = 0 \/ acknak_event = 1
                 THEN Select("NoteRetrievedReply")
                 ELSE IF acknak_event = 127
                 THEN Select("NoteRetrievedEvent")
                 ELSE Fail(ErrAckNakEvent)
      [] sub_type = "AdvancedBookmark" -> Select("AdvancedBookmarkModeReply")
      [] OTHER -> Fail(ErrUnsupportedExtended)

\* ReplyVariant::from_buf with the 7-bit and 8-bit firmware replies taken for each other
ReplyVariant_from_buf_match_swapped(buf) ==
    LET msg_len == Len(buf) IN
    IF ~(msg_len >= MIN_MESSAGE /\ msg_len <= MAX_MESSAGE) THEN Fail(ErrMessageLength)
    ELSE IF ~InBounds(buf, index_CONTROL) THEN Fail(Panic)
    ELSE LET msg_type == MessageType_from(Control_message_type(Control_from(At(buf, index_CONTROL))))
         IN
    CASE msg_type = "OmnibusReply" -> Select("OmnibusReply")
      [] msg_type = "FirmwareDownload" ->
            (CASE msg_len = BAUD_CHANGE_REPLY -> Select("BaudRateChangeReply")
               [] msg_len = START_DOWNLOAD_REPLY -> Select("StartDownloadReply")
               [] msg_len = FLASH_DOWNLOAD_REPLY_7BIT -> Select("FlashDownloadReply8bit")
               [] msg_len = FLASH_DOWNLOAD_REPLY_8BIT -> Select("FlashDownloadReply7bit")
               [] OTHER -> Fail(ErrFirmwareLength))
      [] msg_type = "Extended" -> ReplyVariant_from_buf_extended(buf)
      [] OTHER -> Fail(ErrNotReply)

\* ReplyVariant::from_buf with an arm that guesses an AuxCommand reply from its length
ReplyVariant_from_buf_match_aux_guess(buf) ==
    LET msg_len == Len(buf) IN
    IF ~(msg_len >= MIN_MESSAGE /\ msg_len <= MAX_MESSAGE) THEN Fail(ErrMessageLength)
    ELSE IF ~InBounds(buf, index_CONTROL) THEN Fail(Panic)
    ELSE LET msg_type == MessageType_from(Control_message_type(Control_from(At(buf, index_CONTROL))))
         IN
    CASE msg_type = "OmnibusReply" -> Select("OmnibusReply")
      [] msg_type = "FirmwareDownload" ->
            (CASE msg_len = BAUD_CHANGE_REPLY -> Select("BaudRateChangeReply")
               [] msg_len = START_DOWNLOAD_REPLY -> Select("StartDownloadReply")
               [] msg_len = FLASH_DOWNLOAD_REPLY_7BIT -> Select("FlashDownloadReply7bit")
               [] msg_len = FLASH_DOWNLOAD_REPLY_8BIT -> Select("FlashDownloadReply8bit")
               [] OTHER -> Fail(ErrFirmwareLength))
      [] msg_type = "Extended" -> ReplyVariant_from_buf_extended(buf)
      [] msg_type = "AuxCommand" ->
            (CASE msg_len = QUERY_SOFTWARE_CRC_REPLY -> Select("QuerySoftwareCrcReply")
               [] msg_len = QUERY_BOOT_PART_NUMBER_REPLY -> Select("QueryBootPartNumberReply")
               [] msg_len = QUERY_VARIANT_NAME_REPLY -> Select("QueryVariantNameReply")
               [] OTHER -> Fail(ErrNotReply))
      [] OTHER -> Fail(ErrNotReply)

\* the arm ReplyVariant::from_buf(buf) takes
ReplyVariant_from_buf_match(buf) ==
    LET msg_len == Len(buf) IN
    IF ~(msg_len >= MIN_MESSAGE /\ msg_len <= MAX_MESSAGE) THEN Fail(ErrMessageLength)
    ELSE IF ~InBounds(buf, index_CONTROL) THEN Fail(Panic)
    ELSE LET msg_type == MessageType_from(Control_message_type(Control_from(At(buf, index_CONTROL))))
         IN
    CASE msg_type = "OmnibusReply" -> Select("OmnibusReply")
      [] msg_type = "FirmwareDownload" ->
            (CASE msg_len = BAUD_CHANGE_REPLY -> Select("BaudRateChangeReply")
               [] msg_len = START_DOWNLOAD_REPLY -> Select("StartDownloadReply")
               [] msg_len = FLASH_DOWNLOAD_REPLY_7BIT -> Select("FlashDownloadReply7bit")
               [] msg_len = FLASH_DOWNLOAD_REPLY_8BIT -> Select("FlashDownloadReply8bit")
               [] OTHER -> Fail(ErrFirmwareLength))
      [] msg_type = "Extended" -> ReplyVariant_from_buf_extended(buf)
      [] OTHER -> Fail(ErrNotReply)

\* ReplyVariant::from_buf(buf)
ReplyVariant_from_buf(buf) == Decode(ReplyVariant_from_buf_match(buf), buf)

\* the arm MessageVariant::from_aux_buf(buf, command) takes
MessageVariant_from_aux_buf_match(buf, command) ==
    LET msg_len == Len(buf) IN
    IF ~(msg_len >= MIN_MESSAGE /\ msg_len <= MAX_MESSAGE) THEN Fail(ErrMessageLength)
    ELSE IF ~InBounds(buf, index_CONTROL) THEN Fail(Panic)
    ELSE LET msg_type == MessageType_from(Control_message_type(Control_from(At(buf, index_CONTROL))))
             exp_msg_type == "AuxCommand"
         IN
    IF msg_type # exp_msg_type THEN Fail(ErrAuxMessageType)
    ELSE CASE command = "QuerySoftwareCrc" -> Select("QuerySoftwareCrcReply")
           [] command = "QueryBootPartNumber" -> Select("QueryBootPartNumberReply")
           [] command = "QueryApplicationPartNumber" ->
                 Select("QueryApplicationPartNumberReply")
           [] command = "QueryVariantName" -> Select("QueryVariantNameReply")
           [] command = "QueryVariantPartNumber" -> Select("QueryVariantPartNumberReply")
           [] command = "QueryDeviceCapabilities" ->
                 Select("QueryDeviceCapabilitiesReply")
           [] command = "QueryApplicationId" -> Select("QueryApplicationIdReply")
           [] command = "QueryVariantId" -> Select("QueryVariantIdReply")
           [] OTHER -> Fail(ErrAuxReplyType)

\* MessageVariant::from_aux_buf(buf, command)
MessageVariant_from_aux_buf(buf, command) ==
    Decode(MessageVariant_from_aux_buf_match(buf, command), buf)

\* the Extended arm of MessageVariant::from_buf
MessageVariant_from_buf_extended(buf) ==
    IF ~InBounds(buf, index_EXT_SUBTYPE) THEN Fail(Panic)
    ELSE LET raw_sub_type == At(buf, index_EXT_SUBTYPE)
             sub_type == ExtendedCommand_from(raw_sub_type)
         IN
    CASE sub_type = "ClearAuditDataRequest" ->
            IF ~InBounds(buf, 10) THEN Fail(Panic)
            ELSE LET cad_reply_diff == At(buf, 10) IN
                 IF cad_reply_diff = 0 \/ cad_reply_diff = 1
                 THEN Select("ClearAuditDataRequestAck")
                 ELSE IF cad_reply_diff = 16 \/ cad_reply_diff = 17
                 THEN Select("ClearAuditDataRequestResults")
                 ELSE Fail(ErrClearAuditReplyType)
      [] sub_type = "ExtendedNoteSpecification" -> Select("ExtendedNoteReply")
      [] sub_type = "SetExtendedNoteInhibits" -> Select("ExtendedNoteInhibitsReplyAlt")
      [] sub_type = "QueryValueTable" -> Select("QueryValueTableReply")
      [] sub_type = "NoteRetrieved" ->
            IF Len(buf) < NOTE_RETRIEVED_REPLY THEN Fail(ErrNoteRetrievedLength)
            ELSE IF ~InBounds(buf, note_retrieved_index_ACKNAK) THEN Fail(Panic)
            ELSE LET acknak_event == At(buf, note_retrieved_index_ACKNAK) IN
                 IF acknak_event = 0 \/ acknak_event = 1
                 THEN Select("NoteRetrievedReply")
                 ELSE IF acknak_event = 127
                 THEN Select("NoteRetrievedEvent")
                 ELSE Fail(ErrAckNakEvent)
      [] sub_type = "AdvancedBookmark" -> Select("AdvancedBookmarkModeReply")
      [] OTHER -> Fail(ErrUnsupportedExtended)

\* the arm MessageVariant::from_buf(buf) takes
MessageVariant_from_buf_match(buf) ==
    LET msg_len == Len(buf) IN
    IF ~(msg_len >= MIN_MESSAGE /\ msg_len <= MAX_MESSAGE) THEN Fail(ErrMessageLength)
    ELSE IF ~InBounds(buf, index_CONTROL) THEN Fail(Panic)
    ELSE LET msg_type == MessageType_from(Control_message_type(Control_from(At(buf, index_CONTROL))))
         IN
    CASE msg_type = "OmnibusReply" -> Select("OmnibusReply")
      [] msg_type = "FirmwareDownload" ->
            (CASE msg_len = BAUD_CHANGE_REPLY -> Select("BaudRateChangeReply")
               [] msg_len = START_DOWNLOAD_REPLY -> Select("StartDownloadReply")
               [] msg_len = FLASH_DOWNLOAD_REPLY_7BIT -> Select("FlashDownloadReply7bit")
               [] msg_len = FLASH_DOWNLOAD_REPLY_8BIT -> Select("FlashDownloadReply8bit")
               [] OTHER -> Fail(ErrFirmwareLength))
      [] msg_type = "Extended" -> MessageVariant_from_buf_extended(buf)
      [] OTHER -> Fail(ErrNotReply)

\* MessageVariant::from_buf(buf)
MessageVariant_from_buf(buf) == Decode(MessageVariant_from_buf_match(buf), buf)

\* ------------------------------------------------------------------------
\* CommandVariant: TryFrom<&[u8]>
\* ------------------------------------------------------------------------

ErrCommandLength == "invalid command length"
ErrAuxCommandLength == "invalid AuxCommand length"
ErrAuxCommandType == "invalid AuxCommand message type"
ErrExtendedCommandLength == "invalid ExtendedCommand length"
ErrExtendedCommandType == "invalid ExtendedCommand message type"
ErrCommandType == "invalid command message type"

AUX_COMMAND == 8
min_ext_len == 8

\* usize::saturating_sub
saturating_sub(a, b) == IF a >= b THEN a - b ELSE 0

\* the arm CommandVariant::try_from(val) takes
CommandVariant_try_from_match(val) ==
    LET n == Len(val)
        max == MAX_MESSAGE
    IN
    IF n > max THEN Fail(ErrCommandLength)
    ELSE IF ~InBounds(val, index_CONTROL) THEN Fail(Panic)
    ELSE LET raw_msg_type == At(val, index_CONTROL)
             msg_type == MessageType_from(Control_message_type(Control_from(raw_msg_type)))
         IN
    CASE msg_type = "OmnibusCommand" -> Select("OmnibusCommand")
      [] msg_type = "AuxCommand" ->
            IF n < AUX_COMMAND THEN Fail(ErrAuxCommandLength)
            ELSE IF ~InBounds(val, aux_command_index_COMMAND) THEN Fail(Panic)
            ELSE LET aux_type == AuxCommand_from(At(val, aux_command_index_COMMAND)) IN
                 CASE aux_type = "QueryBootPartNumber" -> Select("QueryBootPartNumberCommand")
                   [] aux_type = "QueryApplicationPartNumber" ->
                         Select("QueryApplicationPartNumberCommand")
                   [] aux_type = "QueryVariantPartNumber" ->
                         Select("QueryVariantPartNumberCommand")
                   [] aux_type = "QueryVariantName" -> Select("QueryVariantNameCommand")
                   [] aux_type = "QueryDeviceCapabilities" ->
                         Select("QueryDeviceCapabilitiesCommand")
                   [] aux_type = "SoftReset" -> Select("SoftReset")
                   [] OTHER -> Fail(ErrAuxCommandType)
      [] msg_type = "Extended" ->
            IF n < min_ext_len THEN Fail(ErrExtendedCommandLength)
            ELSE IF ~InBounds(val, extended_command_index_SUBTYPE) THEN Fail(Panic)
            ELSE LET ext_type == ExtendedCommand_from(At(val, extended_command_index_SUBTYPE)) IN
                 CASE ext_type = "QueryValueTable" -> Select("QueryValueTableCommand")
                   [] ext_type = "ExtendedNoteSpecification" ->
                         Select("QueryExtendedNoteSpecification")
                   [] ext_type = "SetExtendedNoteInhibits" ->
                         IF saturating_sub(n, SET_EXTENDED_NOTE_INHIBITS_BASE) <= CFSC_ENABLE_LEN
                         THEN Select("SetExtendedNoteInhibitsCFSC")
                         ELSE Select("SetExtendedNoteInhibitsSC")
                   [] OTHER -> Fail(ErrExtendedCommandType)
      [] OTHER -> Fail(ErrCommandType)

\* impl TryFrom<&[u8]> for CommandVariant
CommandVariant_try_from(val) == Decode(CommandVariant_try_from_match(val), val)

\* ------------------------------------------------------------------------
\* The wire: the slices handed to the decoders.  A frame is what a peer
\* sends for a message type; a fault set damages it.
\* ------------------------------------------------------------------------

\* at most this many faults in one slice
MaxFaults == 2

CheckFaults == {"short", "stx", "len", "etx", "chk", "class"}
FaultNames == CheckFaults \cup {"long", "subtype"}

FaultSets ==
    {F \in SUBSET FaultNames :
        /\ Cardinality(F) <= MaxFaults
        /\ ~({"short", "long"} \subseteq F)
        /\ (F \cap {"long", "subtype"} # {} => F \subseteq {"long", "subtype", "chk", "class"})}

\* the class bits a damaged control byte may carry
FaultClassBits == {0, 2, 7}

\* the frame w damaged by the faults F; every fault but "chk" leaves the
\* checksum right
Mangle(w, F, cls) ==
    LET L == Len(w)
        w1 == IF "class" \in F
              THEN Put(w, index_CONTROL, SetBitRange(At(w, index_CONTROL), 6, 4, cls))
              ELSE w
        w2 == IF "subtype" \in F
              THEN Put(w1, index_EXT_SUBTYPE, IF At(w1, index_EXT_SUBTYPE) = 11 THEN 13 ELSE 11)
              ELSE w1
        w3 == IF "len" \in F THEN Put(w2, index_LEN, L + 1) ELSE w2
        w4 == IF "etx" \in F THEN Put(w3, L - 2, 0) ELSE w3
        w5 == IF "stx" \in F THEN Put(w4, index_STX, 0) ELSE w4
        w6 == calculate_checksum(w5)
        w7 == IF "chk" \in F THEN Put(w6, L - 1, Xor(At(w6, L - 1), 255)) ELSE w6
    IN IF "long" \in F THEN Append(w7, 0)
       ELSE IF "short" \in F THEN Slice(w7, 0, L - 1)
       ELSE w7

\* the slices a message of type t is asked to decode
InputsOf ==
    [t \in Types |->
        {Mangle(New(t), F, c) : F \in FaultSets, c \in FaultClassBits}]

\* ------------------------------------------------------------------------
\* Decoding a slice into a concrete message
\* ------------------------------------------------------------------------

\* ty: the concrete type; buf: its buffer; input: the slice last handed in;
\* hint: the AuxCommand hint; op: the last operation; res: its result;
\* steps: the operations applied to the message so far
VARIABLES ty, buf, input, hint, op, res, steps

vars == <<ty, buf, input, hint, op, res, steps>>

\* a message of any concrete type, from new() or from Default
Init ==
    /\ ty \in Types
    /\ \/ op = "new" /\ buf = New(ty)
       \/ op = "default" /\ buf = Default(ty)
    /\ input = <<>>
    /\ hint = None
    /\ res = None
    /\ steps = 0

\* set_message_type on a freshly built message
SetMessageType ==
    /\ op = "new"
    /\ \E mt \in MessageTypes : buf' = set_message_type(buf, mt)
    /\ op' = "set_message_type"
    /\ input' = <<>>
    /\ res' = None
    /\ UNCHANGED <<ty, hint, steps>>

\* self.from_buf(in); each message of this specification decodes one slice
FromBuf ==
    /\ op # "from_buf"
    /\ \E in \in InputsOf[ty] :
         LET r == from_buf(buf, in) IN
         /\ buf' = r.buf
         /\ res' = r.res
         /\ input' = in
    /\ op' = "from_buf"
    /\ UNCHANGED <<ty, hint, steps>>

Next ==
    \/ SetMessageType
    \/ FromBuf

Spec == Init /\ [][Next]_vars

\* ------------------------------------------------------------------------
\* Properties of decoding a slice into a concrete message
\* ------------------------------------------------------------------------

\* a result that is an error value
IsErr(r) == r \notin {Ok, Panic, None}

\* the class bits (bits 4 to 6) of a control byte
ClassBits(b) == (b \div 16) % 8

\* the six checks of the contract, in its own words, on the slice in for a
\* message whose buffer is self
SixChecksPass(self, in) ==
    /\ Len(in) >= Len(self)
    /\ At(in, 0) = STX
    /\ At(in, 1) = Len(self)
    /\ At(in, Len(self) - 2) = ETX
    /\ checksum(Slice(in, 1, Len(self) - 2)) = At(in, Len(self) - 1)
    /\ ClassBits(At(in, 2)) = ClassBits(At(self, 2))

\* the first check, in the order (a) to (f), that the slice fails
FirstFailing(self, in) ==
    IF Len(in) < Len(self) THEN "a"
    ELSE IF At(in, 0) # STX THEN "b"
    ELSE IF At(in, 1) # Len(self) THEN "c"
    ELSE IF At(in, Len(self) - 2) # ETX THEN "d"
    ELSE IF checksum(Slice(in, 1, Len(self) - 2)) # At(in, Len(self) - 1) THEN "e"
    ELSE IF ClassBits(At(in, 2)) # ClassBits(At(self, 2)) THEN "f"
    ELSE "none"

\* the error value each check returns
ErrorOfCheck(c) ==
    CASE c = "a" -> ErrReplyLength
      [] c = "b" -> ErrStx
      [] c = "c" -> ErrReplyLength
      [] c = "d" -> ErrEtx
      [] c = "e" -> ErrChecksum
      [] c = "f" -> ErrMessageType
      [] OTHER -> Ok

\* C2: a from_buf that fails leaves the buffer byte for byte as it was; a
\* from_buf that succeeds was given a slice passing all six checks, and the
\* buffer is then the first L bytes of that slice.
C2_FromBufFrame ==
    [][op' = "from_buf" =>
          IF res' = Ok
          THEN SixChecksPass(buf, input') /\ buf' = Slice(input', 0, Len(buf))
          ELSE buf' = buf]_vars

\* a slice was accepted and the buffer now differs from the constructed one
C2_Witness ==
    /\ op = "from_buf"
    /\ res = Ok
    /\ buf = Slice(input, 0, Len(buf))
    /\ buf # New(ty)
    /\ buf # Default(ty)

\* C3 as stated: from_buf fails on every slice of length L-1 and of length
\* L+1, and on every slice of length L whose LEN byte is not L.
C3_LengthExact ==
    (/\ op = "from_buf"
     /\ \/ Len(input) = Len(buf) - 1
        \/ Len(input) = Len(buf) + 1
        \/ Len(input) = Len(buf) /\ At(input, index_LEN) # Len(buf))
    => IsErr(res)

\* C3 as the code has it: from_buf fails on every slice shorter than L and on
\* every slice of length L or more whose LEN byte is not L; a slice longer
\* than L gets the result of its first L bytes, the rest is ignored.
C3_LengthPrefix ==
    [][op' = "from_buf" =>
          /\ Len(input') < Len(buf) => IsErr(res')
          /\ (Len(input') >= Len(buf) /\ At(input', index_LEN) # Len(buf)) => IsErr(res')
          /\ Len(input') > Len(buf) =>
                /\ res' = from_buf(buf, Slice(input', 0, Len(buf))).res
                /\ buf' = from_buf(buf, Slice(input', 0, Len(buf))).buf]_vars

\* a slice one byte longer than the type was accepted
C3_Witness ==
    /\ op = "from_buf"
    /\ Len(input) = Len(buf) + 1
    /\ res = Ok

C6_FirstFailingCheck ==
    [][op' = "from_buf" => res' = ErrorOfCheck(FirstFailing(buf, input'))]_vars

\* C6 as stated: the checks run in the order (a) to (f) and the error names
\* the first failing check, so that two slices getting the same error fail
\* the same check first.
C6_ErrorIdentifiesCheck ==
    [][op' = "from_buf" =>
          /\ res' = ErrorOfCheck(FirstFailing(buf, input'))
          /\ \A in2 \in InputsOf[ty] :
                (res' # Ok /\ from_buf(buf, in2).res = res')
                    => FirstFailing(buf, in2) = FirstFailing(buf, input')]_vars

\* a slice with a wrong ETX and a wrong checksum got the ETX error, and a
\* full-length slice with a wrong LEN byte got the error of a short slice
C6_Witness ==
    /\ op = "from_buf"
    /\ \/ /\ res = ErrEtx
          /\ validate_checksum(Slice(input, 0, Len(buf))) = ErrChecksum
       \/ /\ res = ErrReplyLength
          /\ Len(input) >= Len(buf)
          /\ At(input, index_STX) = STX

\* C7 as stated: whatever the value of the message (new(), Default, after
\* setters), from_buf rejects a slice whose class is not the class that
\* T::new() stamps.
C7_RejectsForeignClass ==
    (/\ op = "from_buf"
     /\ Len(input) > index_CONTROL
     /\ ClassBits(At(input, index_CONTROL)) # ClassBits(At(New(ty), index_CONTROL)))
    => res # Ok

\* C8 as stated: decoding into a concrete Extended type fails when the
\* subtype byte of the slice is not the subtype the type stamps.
C8_RejectsForeignSubtype ==
    (/\ op = "from_buf"
     /\ message_type(New(ty)) = "Extended"
     /\ Len(input) > index_EXT_SUBTYPE
     /\ At(input, index_EXT_SUBTYPE) # At(New(ty), index_EXT_SUBTYPE))
    => res # Ok

\* the envelope of a buffer: STX, LEN, ETX
EnvelopeOk(b) ==
    /\ At(b, index_STX) = STX
    /\ At(b, index_LEN) = Len(b)
    /\ At(b, Len(b) - 2) = ETX

\* the offsets of the data bytes, 3 up to len-2
DataOffsets(b) == 3..(Len(b) - 3)

StampedOffsets == {3, 4, 5, 6, 10}

ReplyTypes ==
    {"OmnibusReply", "AdvancedBookmarkModeReply", "ClearAuditDataRequestAck",
     "ClearAuditDataRequestResults", "ExtendedNoteReply", "ExtendedNoteInhibitsReplyAlt",
     "NoteRetrievedReply", "NoteRetrievedEvent", "QueryValueTableReply",
     "SetEscrowTimeoutReply", "QuerySoftwareCrcReply", "QueryBootPartNumberReply",
     "QueryApplicationPartNumberReply", "QueryVariantNameReply",
     "QueryVariantPartNumberReply", "QueryDeviceCapabilitiesReply",
     "QueryApplicationIdReply", "QueryVariantIdReply", "BaudRateChangeReply",
     "FlashDownloadReply7bit", "FlashDownloadReply8bit", "StartDownloadReply"}

\* the replies told apart by byte 10, and the values tried for it
ByteTenTypes ==
    {"ClearAuditDataRequestAck", "ClearAuditDataRequestResults",
     "NoteRetrievedReply", "NoteRetrievedEvent"}
ByteTenValues == {0, 1, 16, 17, 127, 85}

\* the subtype bytes tried
SubtypeValues == {1, 2, 3, 4, 6, 11, 13, 29, 85}

\* the frames a peer sends for the reply type t
ReplyFrames(t) ==
    IF t \in ByteTenTypes
    THEN {calculate_checksum(Put(New(t), 10, v)) : v \in ByteTenValues}
    ELSE {calculate_checksum(New(t))}

DamageChoices ==
    {<<"none", 0>>, <<"stx", 0>>, <<"len", 0>>, <<"etx", 0>>, <<"long", 0>>}
        \cup {<<"class", c>> : c \in 0..7}
        \cup {<<"subtype", v>> : v \in SubtypeValues}

\* the frame w with one thing wrong and the checksum right
Damage(w, d) ==
    LET f == d[1]
        v == d[2]
        L == Len(w)
    IN CASE f = "stx" -> Put(w, index_STX, 0)
         [] f = "len" -> calculate_checksum(Put(w, index_LEN, L + 1))
         [] f = "etx" -> Put(w, L - 2, 0)
         [] f = "long" -> Append(w, 0)
         [] f = "class" ->
               calculate_checksum(
                   Put(w, index_CONTROL, SetBitRange(At(w, index_CONTROL), 6, 4, v)))
         [] f = "subtype" -> calculate_checksum(Put(w, index_EXT_SUBTYPE, v))
         [] OTHER -> w

\* the slice w with the checksum byte of its frame (offset L-1) wrong
BadChecksum(w, L) == Put(w, L - 1, Xor(At(w, L - 1), 255))

\* every leading part of w
Prefixes(w) == {Slice(w, 0, n) : n \in 0..Len(w)}

\* the slices handed to the resolvers
ResolveInputs ==
    UNION {
        UNION {
            {Damage(w, d) : d \in DamageChoices}
                \cup {BadChecksum(w, Len(w)), BadChecksum(Append(w, 0), Len(w))}
                \cup Prefixes(w) :
            w \in ReplyFrames(t)} :
        t \in ReplyTypes}

InitResolve ==
    /\ input \in ResolveInputs
    /\ op = "slice"
    /\ ty = None
    /\ buf = <<>>
    /\ hint = None
    /\ res = None
    /\ steps = 0

\* ReplyVariant::from_buf(input)
ReplyFromBuf ==
    /\ op = "slice"
    /\ LET r == ReplyVariant_from_buf(input) IN
         /\ res' = r.res
         /\ ty' = r.variant
         /\ buf' = r.buf
    /\ op' = "ReplyVariant::from_buf"
    /\ UNCHANGED <<input, hint, steps>>

\* ReplyVariant::from_aux_buf(input, command)
ReplyFromAuxBuf ==
    /\ op = "slice"
    /\ \E command \in AuxCommands :
         LET r == ReplyVariant_from_aux_buf(input, command) IN
         /\ res' = r.res
         /\ ty' = r.variant
         /\ buf' = r.buf
         /\ hint' = command
    /\ op' = "ReplyVariant::from_aux_buf"
    /\ UNCHANGED <<input, steps>>

\* MessageVariant::from_buf(input)
MessageFromBuf ==
    /\ op = "slice"
    /\ LET r == MessageVariant_from_buf(input) IN
         /\ res' = r.res
         /\ ty' = r.variant
         /\ buf' = r.buf
    /\ op' = "MessageVariant::from_buf"
    /\ UNCHANGED <<input, hint, steps>>

\* MessageVariant::from_aux_buf(input, command)
MessageFromAuxBuf ==
    /\ op = "slice"
    /\ \E command \in AuxCommands :
         LET r == MessageVariant_from_aux_buf(input, command) IN
         /\ res' = r.res
         /\ ty' = r.variant
         /\ buf' = r.buf
         /\ hint' = command
    /\ op' = "MessageVariant::from_aux_buf"
    /\ UNCHANGED <<input, steps>>

NextResolve ==
    \/ ReplyFromBuf
    \/ ReplyFromAuxBuf
    \/ MessageFromBuf
    \/ MessageFromAuxBuf

SpecResolve == InitResolve /\ [][NextResolve]_vars

\* the operations that resolve a slice
ResolveOps ==
    {"ReplyVariant::from_buf", "ReplyVariant::from_aux_buf",
     "MessageVariant::from_buf", "MessageVariant::from_aux_buf"}

\* C1 as stated: every resolver returns Ok or an error value for every
\* slice; none panics on an index outside the slice.
C1_ResolversNeverPanic ==
    op \in ResolveOps => res # Panic

\* the slice b with its last byte set to the XOR of its bytes [1, N-2)
FixChecksum(b) == Put(b, Len(b) - 1, checksum(Slice(b, 1, Len(b) - 2)))

\* the XOR of the bytes [1, N-2) of the slice b disagrees with its last byte
WholeChecksumBad(b) == checksum(Slice(b, 1, Len(b) - 2)) # At(b, Len(b) - 1)

\* C4 as stated: ReplyVariant::from_buf rejects every buffer of length N
\* whose XOR over [1, N-2) disagrees with the byte at N-1, with the
\* checksum error.
C4_AnyBadChecksumRejected ==
    (op = "ReplyVariant::from_buf" /\ Len(input) >= MIN_MESSAGE /\ WholeChecksumBad(input))
        => res = ErrChecksum

\* C4 amended: a buffer of length N whose LEN byte is N and which the reply
\* resolver accepts once its last byte is the XOR over [1, N-2) is rejected
\* with the checksum error when its last byte disagrees with that XOR; and
\* every buffer the reply resolver accepts has a valid checksum over the
\* first L bytes, L being the size of the resolved type (bytes past L are
\* not looked at).
C4_BadChecksumOfFrameRejected ==
    op = "ReplyVariant::from_buf" =>
        /\ (/\ Len(input) >= MIN_MESSAGE
            /\ At(input, index_LEN) = Len(input)
            /\ WholeChecksumBad(input)
            /\ ReplyVariant_from_buf(FixChecksum(input)).res = Ok)
               => res = ErrChecksum
        /\ res = Ok =>
               /\ Len(buf) <= Len(input)
               /\ checksum(Slice(input, 1, Len(buf) - 2)) = At(input, Len(buf) - 1)

\* a frame that is valid but for its checksum byte was rejected for it
C4_Witness ==
    /\ op = "ReplyVariant::from_buf"
    /\ res = ErrChecksum
    /\ Len(input) >= MIN_MESSAGE
    /\ At(input, index_LEN) = Len(input)
    /\ WholeChecksumBad(input)
    /\ ReplyVariant_from_buf(FixChecksum(input)).res = Ok

\* ------------------------------------------------------------------------
\* A message built by new() and then worked on: control setters, typed
\* field setters, calculate_checksum, as_bytes and from_buf, in any order.
\* A typed field setter is modelled by the offsets of the buffer it stores
\* to; the byte it stores there is drawn from FieldBytes.
\* ------------------------------------------------------------------------

\* at most this many operations on one message
MaxOps == 2

\* the bytes a typed setter stores
FieldBytes == {1, 3}

\* v repeated n times
RECURSIVE Repeat(_, _)
Repeat(v, n) ==
    IF n <= 0 THEN <<>>
    ELSE IF n = 1 THEN <<v>>
    ELSE Repeat(v, n \div 2) \o Repeat(v, n - (n \div 2))

\* self.buf[first..=last] with every byte set to v
Fill(self, first, last, v) ==
    SubSeq(self, 1, first) \o Repeat(v, last - first + 1) \o SubSeq(self, last + 2, Len(self))

\* the types of each family of setters
OmnibusCommandOpsTypes ==
    {"OmnibusCommand", "QueryDeviceCapabilitiesCommand", "QueryVariantNameCommand"}
OmnibusExtendedCommandTypes ==
    {"AdvancedBookmarkModeCommand", "SetEscrowTimeoutCommand", "NoteRetrievedCommand",
     "SetExtendedNoteInhibitsCFSC", "SetExtendedNoteInhibitsSC", "ClearAuditDataRequest",
     "QueryValueTableCommand", "QueryExtendedNoteSpecification"}
OmnibusExtendedReplyTypes ==
    {"AdvancedBookmarkModeReply", "SetEscrowTimeoutReply", "NoteRetrievedReply",
     "NoteRetrievedEvent", "ExtendedNoteInhibitsReplyAlt", "ClearAuditDataRequestAck",
     "ClearAuditDataRequestResults", "QueryValueTableReply", "ExtendedNoteReply"}
ExtendedOpsTypes ==
    (OmnibusExtendedCommandTypes \cup OmnibusExtendedReplyTypes)
        \ {"ExtendedNoteInhibitsReplyAlt"}
AuxOpsTypes ==
    {"QueryVariantNameCommand", "QueryVariantIdCommand", "SoftReset",
     "QueryBootPartNumberCommand", "QueryDeviceCapabilitiesCommand",
     "QueryVariantPartNumberCommand", "QueryApplicationPartNumberCommand",
     "QuerySoftwareCrcCommand", "QuerySoftwareCrcReply"}

\* OmnibusCommandOps: the setters and the offsets first..=last they store to
\* (the bit setters of a byte store to the offset of that byte)
OmnibusCommandOpsWrites ==
    {<<"set_denomination", 3, 3>>, <<"set_operational_mode", 4, 4>>,
     <<"set_configuration", 5, 5>>}

\* OmnibusCommandOps of the extended commands: one byte further on
OmnibusExtendedCommandWrites ==
    {<<"set_denomination", 4, 4>>, <<"set_operational_mode", 5, 5>>,
     <<"set_configuration", 6, 6>>}

\* OmnibusReplyOps of OmnibusReply
OmnibusReplyOpsWrites ==
    {<<"set_device_state", 3, 3>>, <<"set_device_status", 4, 4>>,
     <<"set_exception_status", 5, 5>>, <<"set_misc_device_state", 6, 6>>,
     <<"set_model_number", 7, 7>>, <<"set_code_revision", 8, 8>>}

\* OmnibusReplyOps of the extended replies: one byte further on
OmnibusExtendedReplyWrites ==
    {<<"set_device_state", 4, 4>>, <<"set_device_status", 5, 5>>,
     <<"set_exception_status", 6, 6>>, <<"set_misc_device_state", 7, 7>>,
     <<"set_model_number", 8, 8>>, <<"set_code_revision", 9, 9>>}

\* ExtendedReplyOps of ExtendedNoteInhibitsReplyAlt
ExtendedReplyOpsWrites ==
    {<<"ExtendedReplyOps::set_extended_command", 3, 3>>,
     <<"ExtendedReplyOps::set_device_state", 4, 4>>,
     <<"ExtendedReplyOps::set_device_status", 5, 5>>,
     <<"ExtendedReplyOps::set_exception_status", 6, 6>>,
     <<"ExtendedReplyOps::set_misc_device_state", 7, 7>>,
     <<"ExtendedReplyOps::set_model_number", 8, 8>>,
     <<"ExtendedReplyOps::set_code_revision", 9, 9>>}

\* the setters a type defines itself
OwnWrites(t) ==
    CASE t = "AdvancedBookmarkModeCommand" -> {<<"set_status", 7, 7>>}
      [] t = "AdvancedBookmarkModeReply" -> {<<"set_mode_acknak", 10, 10>>}
      [] t = "SetEscrowTimeoutCommand" ->
            {<<"set_notes_timeout", 7, 7>>, <<"set_barcodes_timeout", 8, 8>>}
      [] t = "NoteRetrievedCommand" -> {<<"set_status", 7, 7>>}
      [] t = "NoteRetrievedReply" -> {<<"set_retrieved_acknak", 10, 10>>}
      [] t = "QueryExtendedNoteSpecification" -> {<<"set_note_index", 7, 7>>}
      [] t = "SetExtendedNoteInhibitsCFSC" ->
            {<<"set_enabled_notes", 7, 7 + n - 1>> : n \in {1, CFSC_ENABLE_LEN}}
      [] t = "SetExtendedNoteInhibitsSC" ->
            {<<"set_enabled_notes", 7, 7 + n - 1>> : n \in {1, SC_ENABLE_LEN}}
      [] t \in {"BaudRateChangeRequest", "BaudRateChangeReply"} ->
            {<<"set_baud_rate", 3, 3>>}
      [] t = "StartDownloadCommand" -> {<<"set_extended_note", 5, 5>>}
      [] t = "StartDownloadReply" -> {<<"set_download_ready", 6, 6>>}
      [] t = "FlashDownloadMessage7bit" ->
            {<<"set_packet_number", 3, 6>>, <<"increment_packet_number", 3, 6>>,
             <<"set_data", 7, 70>>}
      [] t = "FlashDownloadMessage8bit_64" ->
            {<<"set_packet_number", 3, 4>>, <<"increment_packet_number", 3, 4>>,
             <<"set_data", 5, 68>>}
      [] t = "FlashDownloadMessage8bit_32" ->
            {<<"set_packet_number", 3, 4>>, <<"increment_packet_number", 3, 4>>,
             <<"set_data", 5, 36>>}
      [] t = "FlashDownloadReply7bit" -> {<<"set_packet_number", 3, 6>>}
      [] t = "FlashDownloadReply8bit" -> {<<"set_packet_number", 3, 4>>}
      [] t = "QuerySoftwareCrcReply" -> {<<"set_crc", 3, 6>>}
      [] OTHER -> {}

\* every typed field setter of the type t
SetterWrites(t) ==
    OwnWrites(t)
        \cup (IF t \in OmnibusCommandOpsTypes THEN OmnibusCommandOpsWrites ELSE {})
        \cup (IF t \in OmnibusExtendedCommandTypes THEN OmnibusExtendedCommandWrites ELSE {})
        \cup (IF t = "OmnibusReply" THEN OmnibusReplyOpsWrites ELSE {})
        \cup (IF t \in OmnibusExtendedReplyTypes THEN OmnibusExtendedReplyWrites ELSE {})
        \cup (IF t = "ExtendedNoteInhibitsReplyAlt" THEN ExtendedReplyOpsWrites ELSE {})

\* the slices a worked-on message of type t is asked to decode: the frame of
\* a peer, undamaged or with one fault
OpsInputs(t) ==
    {Mangle(Fill(New(t), 3, 3, 1), F, 0) :
        F \in {{}, {"short"}, {"stx"}, {"len"}, {"etx"}, {"chk"}, {"long"}}}

PowerUps == {"A", "B", "C", "Reserved"}

\* PowerUp::from(u8)
PowerUp_from(b) ==
    CASE b % 4 = 0 -> "A"
      [] b % 4 = 1 -> "B"
      [] b % 4 = 2 -> "B"
      [] OTHER -> "Reserved"

\* PowerUp as u8
PowerUp_as_u8(p) ==
    CASE p = "A" -> 0
      [] p = "B" -> 1
      [] p = "C" -> 2
      [] OTHER -> 3

\* Configuration::from(u8)
Configuration_from(b) == b % 64

Configuration_power_up(c) == BitRange(c, 3, 2)
Configuration_set_power_up(c, v) == SetBitRange(c, 3, 2, v)

\* OmnibusCommandOps::configuration
configuration(self) == Configuration_from(At(self, omnibus_command_index_CONFIGURATION))

\* OmnibusCommandOps::set_configuration
set_configuration(self, cfg) == Put(self, omnibus_command_index_CONFIGURATION, cfg)

\* OmnibusCommandOps::power_up
power_up(self) == PowerUp_from(Configuration_power_up(configuration(self)))

\* OmnibusCommandOps::set_power_up
set_power_up(self, p) ==
    set_configuration(self, Configuration_set_power_up(configuration(self), PowerUp_as_u8(p)))

\* the types that implement FlashDownloadMessage
FlashDownloadMessageTypes ==
    {"FlashDownloadMessage7bit", "FlashDownloadMessage8bit_64",
     "FlashDownloadMessage8bit_32", "OmnibusCommand"}

flash_download_index_PACKET0 == 3
flash_download_index_PACKET1 == 4
flash_download_index_PACKET3 == 6

\* FlashDownloadMessage::packet_number of the type t
packet_number(t, self) ==
    CASE t = "FlashDownloadMessage7bit" ->
            seven_bit_u16(Slice(self, flash_download_index_PACKET0,
                                flash_download_index_PACKET3 + 1))
      [] t \in {"FlashDownloadMessage8bit_64", "FlashDownloadMessage8bit_32"} ->
            At(self, flash_download_index_PACKET0)
                + 256 * At(self, flash_download_index_PACKET1)
      [] OTHER -> 65535

\* FlashDownloadMessage::set_packet_number of the type t
set_packet_number(t, self, n) ==
    CASE t = "FlashDownloadMessage7bit" ->
            SubSeq(self, 1, flash_download_index_PACKET0)
                \o u16_seven_bit(n)
                \o SubSeq(self, flash_download_index_PACKET3 + 2, Len(self))
      [] t \in {"FlashDownloadMessage8bit_64", "FlashDownloadMessage8bit_32"} ->
            SubSeq(self, 1, flash_download_index_PACKET0)
                \o <<n % 256, n \div 256>>
                \o SubSeq(self, flash_download_index_PACKET1 + 2, Len(self))
      [] OTHER -> self

\* u16::overflowing_add(a, 1).0
overflowing_add_one(a) == (a + 1) % 65536

\* increment_packet_number stopping at u16::MAX instead of wrapping
increment_packet_number_saturating(t, self) ==
    IF t = "OmnibusCommand" THEN [ret |-> 65535, buf |-> self]
    ELSE LET n == IF packet_number(t, self) = 65535 THEN 65535
                  ELSE packet_number(t, self) + 1
         IN [ret |-> n, buf |-> set_packet_number(t, self, n)]

\* FlashDownloadMessage::increment_packet_number of the type t: the number
\* returned and the buffer afterwards
increment_packet_number(t, self) ==
    IF t = "OmnibusCommand" THEN [ret |-> 65535, buf |-> self]
    ELSE LET n == overflowing_add_one(packet_number(t, self))
         IN [ret |-> n, buf |-> set_packet_number(t, self, n)]

\* the packet numbers given to set_packet_number
PacketNumbers == {0, 1, 255, 256, 4660, 65534, 65535}

\* the reply types given OmnibusReplyOps by impl_omnibus_nop_reply!
NopReplyTypes ==
    {"QueryVariantNameReply", "StartDownloadReply", "FlashDownloadReply8bit",
     "BaudRateChangeReply", "FlashDownloadReply7bit", "QueryVariantIdReply",
     "QueryBootPartNumberReply", "QueryDeviceCapabilitiesReply",
     "QueryVariantPartNumberReply", "QueryApplicationPartNumberReply",
     "QuerySoftwareCrcReply"}

\* the functions of OmnibusReplyOps: the accessors, and the setters
OmnibusReplyOpsAccessors ==
    {"device_state", "idling", "accepting", "escrowed_state", "stacking", "stacked_event",
     "returning", "returned_event", "device_status", "cheated", "rejected", "jammed",
     "stacker_full", "cassette_attached", "cash_box_status", "paused", "calibration",
     "exception_status", "power_up", "invalid_command", "failure", "note_value",
     "transport_open", "misc_device_state", "stalled", "flash_download", "pre_stack",
     "raw_barcode", "device_capabilities", "disabled", "model_number", "code_revision"}

OmnibusReplyOpsSetters == OmnibusReplyOpsAccessors \ {"cash_box_status"}

\* a setter of impl_omnibus_nop_reply! that stores its argument as the
\* setter of OmnibusReply for the device state does
nop_reply_setter_stored(self, f, v) == Put(self, 3, v)

\* impl_omnibus_nop_reply!: fn set_f(&mut self, _f: F) {}
nop_reply_setter(self, f, v) == self

\* impl_omnibus_nop_reply!: fn f(&self) -> F { 0u8.into() }, the byte the
\* returned value is converted from
nop_reply_accessor(self, f) == 0

InitOps ==
    /\ ty \in Types
    /\ buf = New(ty)
    /\ op = "new"
    /\ input = <<>>
    /\ hint = None
    /\ res = None
    /\ steps = 0

\* set_acknak(a)
OpsSetAckNak ==
    /\ steps < MaxOps
    /\ \E a \in AckNaks : buf' = set_acknak(buf, a)
    /\ op' = "set_acknak"
    /\ res' = None
    /\ steps' = steps + 1
    /\ UNCHANGED <<ty, input, hint>>

\* switch_acknak()
OpsSwitchAckNak ==
    /\ steps < MaxOps
    /\ buf' = switch_acknak(buf)
    /\ op' = "switch_acknak"
    /\ res' = None
    /\ steps' = steps + 1
    /\ UNCHANGED <<ty, input, hint>>

\* set_device_type(dt)
OpsSetDeviceType ==
    /\ steps < MaxOps
    /\ \E dt \in DeviceTypes : buf' = set_device_type(buf, dt)
    /\ op' = "set_device_type"
    /\ res' = None
    /\ steps' = steps + 1
    /\ UNCHANGED <<ty, input, hint>>

\* set_message_type(mt)
OpsSetMessageType ==
    /\ steps < MaxOps
    /\ \E mt \in MessageTypes : buf' = set_message_type(buf, mt)
    /\ op' = "set_message_type"
    /\ res' = None
    /\ steps' = steps + 1
    /\ UNCHANGED <<ty, input, hint>>

\* ExtendedCommandOps::set_extended_command(e)
OpsSetExtendedCommand ==
    /\ steps < MaxOps
    /\ ty \in ExtendedOpsTypes
    /\ \E e \in ExtendedCommands : buf' = set_extended_command(buf, e)
    /\ op' = "set_extended_command"
    /\ res' = None
    /\ steps' = steps + 1
    /\ UNCHANGED <<ty, input, hint>>

\* AuxCommandOps::set_aux_command(a)
OpsSetAuxCommand ==
    /\ steps < MaxOps
    /\ ty \in AuxOpsTypes
    /\ \E a \in AuxCommands : buf' = set_aux_command(buf, a)
    /\ op' = "set_aux_command"
    /\ res' = None
    /\ steps' = steps + 1
    /\ UNCHANGED <<ty, input, hint>>

\* a typed field setter of the type; an offset outside the buffer panics
OpsFieldSetter ==
    /\ steps < MaxOps
    /\ \E w \in SetterWrites(ty), v \in FieldBytes :
         /\ op' = w[1]
         /\ IF InBounds(buf, w[3])
            THEN buf' = Fill(buf, w[2], w[3], v) /\ res' = None
            ELSE buf' = buf /\ res' = Panic
    /\ steps' = steps + 1
    /\ UNCHANGED <<ty, input, hint>>

\* calculate_checksum()
OpsCalculateChecksum ==
    /\ steps < MaxOps
    /\ buf' = calculate_checksum(buf)
    /\ op' = "calculate_checksum"
    /\ res' = None
    /\ steps' = steps + 1
    /\ UNCHANGED <<ty, input, hint>>

\* as_bytes()
OpsAsBytes ==
    /\ steps < MaxOps
    /\ buf' = as_bytes(buf)
    /\ op' = "as_bytes"
    /\ res' = None
    /\ steps' = steps + 1
    /\ UNCHANGED <<ty, input, hint>>

\* from_buf(in)
OpsFromBuf ==
    /\ steps < MaxOps
    /\ \E in \in OpsInputs(ty) :
         LET r == from_buf(buf, in) IN
         /\ buf' = r.buf
         /\ res' = r.res
         /\ input' = in
    /\ op' = "from_buf"
    /\ steps' = steps + 1
    /\ UNCHANGED <<ty, hint>>

\* the round trip: m.as_bytes() decoded by from_buf into a fresh T::new();
\* input is the slice as_bytes returned (the buffer of m), buf the buffer of
\* the fresh message afterwards
OpsRoundTrip ==
    /\ steps < MaxOps
    /\ LET bytes == as_bytes(buf)
           r == from_buf(New(ty), bytes)
       IN /\ input' = bytes
          /\ buf' = r.buf
          /\ res' = r.res
    /\ op' = "round_trip"
    /\ steps' = steps + 1
    /\ UNCHANGED <<ty, hint>>

\* a setter of OmnibusReplyOps on a type of the no-op adapter
OpsNopReplySetter ==
    /\ steps < MaxOps
    /\ ty \in NopReplyTypes
    /\ \E f \in OmnibusReplyOpsSetters, v \in FieldBytes : buf' = nop_reply_setter(buf, f, v)
    /\ op' = "OmnibusReplyOps setter (nop)"
    /\ res' = None
    /\ steps' = steps + 1
    /\ UNCHANGED <<ty, input, hint>>

\* an accessor of OmnibusReplyOps on a type of the no-op adapter; the byte
\* the returned value is converted from is kept in input
OpsNopReplyAccessor ==
    /\ steps < MaxOps
    /\ ty \in NopReplyTypes
    /\ \E f \in OmnibusReplyOpsAccessors : input' = <<nop_reply_accessor(buf, f)>>
    /\ op' = "OmnibusReplyOps accessor (nop)"
    /\ res' = None
    /\ steps' = steps + 1
    /\ UNCHANGED <<ty, buf, hint>>

\* FlashDownloadMessage::set_packet_number(n)
OpsSetPacketNumber ==
    /\ steps < MaxOps
    /\ ty \in FlashDownloadMessageTypes
    /\ \E n \in PacketNumbers : buf' = set_packet_number(ty, buf, n)
    /\ op' = "FlashDownloadMessage::set_packet_number"
    /\ res' = None
    /\ steps' = steps + 1
    /\ UNCHANGED <<ty, input, hint>>

\* FlashDownloadMessage::increment_packet_number(); the number returned is
\* kept in input
OpsIncrementPacketNumber ==
    /\ steps < MaxOps
    /\ ty \in FlashDownloadMessageTypes
    /\ LET r == increment_packet_number(ty, buf) IN
         /\ buf' = r.buf
         /\ input' = <<r.ret>>
    /\ op' = "FlashDownloadMessage::increment_packet_number"
    /\ res' = None
    /\ steps' = steps + 1
    /\ UNCHANGED <<ty, hint>>

\* is_empty(); the bool returned is kept in res
OpsIsEmpty ==
    /\ steps < MaxOps
    /\ res' = (IF is_empty(buf) THEN "true" ELSE "false")
    /\ op' = "is_empty"
    /\ steps' = steps + 1
    /\ UNCHANGED <<ty, buf, input, hint>>

\* OmnibusCommandOps::set_power_up(p)
OpsSetPowerUp ==
    /\ steps < MaxOps
    /\ ty \in OmnibusCommandOpsTypes
    /\ \E p \in PowerUps : buf' = set_power_up(buf, p)
    /\ op' = "set_power_up"
    /\ res' = None
    /\ steps' = steps + 1
    /\ UNCHANGED <<ty, input, hint>>

NextOps ==
    \/ OpsSetAckNak
    \/ OpsSetPowerUp
    \/ OpsIsEmpty
    \/ OpsSetPacketNumber
    \/ OpsIncrementPacketNumber
    \/ OpsNopReplySetter
    \/ OpsNopReplyAccessor
    \/ OpsSwitchAckNak
    \/ OpsSetDeviceType
    \/ OpsSetMessageType
    \/ OpsSetExtendedCommand
    \/ OpsSetAuxCommand
    \/ OpsFieldSetter
    \/ OpsCalculateChecksum
    \/ OpsAsBytes
    \/ OpsFromBuf
    \/ OpsRoundTrip

SpecOps == InitOps /\ [][NextOps]_vars

\* C9: a message created by new() and worked on by setters,
\* calculate_checksum, as_bytes and from_buf (successful or failed) keeps
\* its length, STX in byte 0, its length in the LEN byte and ETX at len-2.
C9_EnvelopeKept ==
    /\ Len(buf) = Len(New(ty))
    /\ At(buf, 0) = STX
    /\ At(buf, 1) = Len(buf)
    /\ At(buf, Len(buf) - 2) = ETX
    /\ res # Panic

\* a message changed by a setter, then a from_buf that failed
C9_Witness ==
    /\ steps >= 2
    /\ op = "from_buf"
    /\ IsErr(res)
    /\ buf # New(ty)
    /\ Len(buf) = Len(New(ty))
    /\ EnvelopeOk(buf)

ArmTaken ==
    CASE op = "ReplyVariant::from_buf" -> ReplyVariant_from_buf_match(input)
      [] op = "ReplyVariant::from_aux_buf" -> ReplyVariant_from_aux_buf_match(input, hint)
      [] op = "MessageVariant::from_buf" -> MessageVariant_from_buf_match(input)
      [] op = "MessageVariant::from_aux_buf" -> MessageVariant_from_aux_buf_match(input, hint)
      [] OTHER -> Fail(None)

\* C12: when ReplyVariant::from_buf, ReplyVariant::from_aux_buf or
\* MessageVariant::from_buf returns Ok, the wrapped message has the fixed
\* length L of its type, L is no greater than the length of the input, and
\* its buffer is the first L bytes of the input; when the from_buf of the
\* selected type fails, the resolver returns that same error.
C12_ResolverDelegates ==
    op \in {"ReplyVariant::from_buf", "ReplyVariant::from_aux_buf", "MessageVariant::from_buf"}
    => /\ res = Ok =>
            /\ ty \in Types \cup {"QueryApplicationIdReply"}
            /\ Len(buf) = Len(New(ty))
            /\ Len(buf) <= Len(input)
            /\ buf = Slice(input, 0, Len(buf))
            /\ from_buf(New(ty), input).res = Ok
       /\ ArmTaken.res = "T::new()" =>
            LET r == from_buf(New(ArmTaken.variant), input) IN
            /\ r.res = Ok => (res = Ok /\ ty = ArmTaken.variant)
            /\ r.res # Ok => (res = r.res /\ ty = None /\ buf = <<>>)

\* the from_buf of the selected type failed and the resolver returned its error
C12_Witness ==
    /\ op = "ReplyVariant::from_buf"
    /\ ArmTaken.res = "T::new()"
    /\ from_buf(New(ArmTaken.variant), input).res = ErrChecksum
    /\ res = ErrChecksum

\* the message-type-class the control byte of a slice decodes to
ClassOf(b) == MessageType_from(Control_message_type(Control_from(At(b, index_CONTROL))))

\* the firmware reply of each total length
FirmwareReplyOfLen(n) ==
    CASE n = 6 -> "BaudRateChangeReply"
      [] n = 11 -> "StartDownloadReply"
      [] n = 9 -> "FlashDownloadReply7bit"
      [] n = 7 -> "FlashDownloadReply8bit"
      [] OTHER -> None

\* C13: for a slice of class FirmwareDownload, ReplyVariant::from_buf takes
\* the type from the total length alone: 6 bytes BaudRateChangeReply, 11
\* StartDownloadReply, 9 FlashDownloadReply7bit, 7 FlashDownloadReply8bit;
\* any other length is an error.
C13_FirmwareByLength ==
    (/\ op = "ReplyVariant::from_buf"
     /\ Len(input) >= MIN_MESSAGE
     /\ Len(input) <= MAX_MESSAGE
     /\ ClassOf(input) = "FirmwareDownload")
    => LET t == FirmwareReplyOfLen(Len(input)) IN
       IF t = None
       THEN res = ErrFirmwareLength
       ELSE /\ ArmTaken = Select(t)
            /\ res = from_buf(New(t), input).res
            /\ res = Ok => ty = t

\* a 7-byte slice of class FirmwareDownload decoded to FlashDownloadReply8bit
C13_Witness ==
    /\ op = "ReplyVariant::from_buf"
    /\ Len(input) = 7
    /\ ClassOf(input) = "FirmwareDownload"
    /\ res = Ok
    /\ ty = "FlashDownloadReply8bit"

\* a slice that is one well-formed frame of L bytes
ValidFrame(b, L) ==
    /\ Len(b) = L
    /\ L >= MIN_MESSAGE
    /\ EnvelopeOk(b)
    /\ checksum(Slice(b, 1, L - 2)) = At(b, L - 1)

C15_NoteRetrievedByByteTen ==
    (/\ op = "ReplyVariant::from_buf"
     /\ ValidFrame(input, 13)
     /\ ClassOf(input) = "Extended"
     /\ At(input, index_EXT_SUBTYPE) = 11)
    => CASE At(input, 10) \in {0, 1} ->
                res = Ok /\ ty = "NoteRetrievedReply" /\ buf = input
         [] At(input, 10) = 127 ->
                res = Ok /\ ty = "NoteRetrievedEvent" /\ buf = input
         [] OTHER ->
                IsErr(res) /\ ty = None

\* a NoteRetrieved frame whose byte 10 is none of 0x00, 0x01, 0x7F was rejected
C15_Witness ==
    /\ op = "ReplyVariant::from_buf"
    /\ ValidFrame(input, 13)
    /\ ClassOf(input) = "Extended"
    /\ At(input, index_EXT_SUBTYPE) = 11
    /\ At(input, 10) \notin {0, 1, 127}
    /\ res = ErrAckNakEvent

\* the reply type an auxiliary command is answered with, None where it has none
HintReply(command) ==
    CASE command = "QuerySoftwareCrc" -> "QuerySoftwareCrcReply"
      [] command = "QueryBootPartNumber" -> "QueryBootPartNumberReply"
      [] command = "QueryApplicationPartNumber" -> "QueryApplicationPartNumberReply"
      [] command = "QueryVariantName" -> "QueryVariantNameReply"
      [] command = "QueryVariantPartNumber" -> "QueryVariantPartNumberReply"
      [] command = "QueryDeviceCapabilities" -> "QueryDeviceCapabilitiesReply"
      [] command = "QueryApplicationId" -> "QueryApplicationIdReply"
      [] command = "QueryVariantId" -> "QueryVariantIdReply"
      [] OTHER -> None

\* the fixed length of the reply type of a hint
HintLen(command) == len(New(HintReply(command)))

\* the two errors that report a length
LengthErrors == {ErrMessageLength, ErrReplyLength}

\* with hint QueryVariantName a valid 37-byte AuxCommand frame decodes to
\* QueryVariantNameReply, and a success is always the reply type of the hint
C16_HintSelects ==
    op = "ReplyVariant::from_aux_buf"
    => /\ (/\ hint = "QueryVariantName"
            /\ ValidFrame(input, 37)
            /\ ClassOf(input) = "AuxCommand")
           => (res = Ok /\ ty = "QueryVariantNameReply" /\ buf = input)
       /\ res = Ok => (HintReply(hint) # None /\ ty = HintReply(hint))

\* C16 as stated: ReplyVariant::from_aux_buf picks the reply type from the
\* hint alone, a valid 37-byte AuxCommand frame with hint QueryVariantName
\* yields QueryVariantNameReply, a success is always the reply type of the
\* hint, and a hint whose reply type has a fixed length different from the
\* length of the buffer fails with a length-validation error.
C16_WrongLengthFails ==
    /\ C16_HintSelects
    /\ (/\ op = "ReplyVariant::from_aux_buf"
         /\ HintReply(hint) # None
         /\ HintLen(hint) # Len(input))
        => res \in LengthErrors

\* C16 amended: the same, except that the length error is promised only
\* for a slice outside 5..255 bytes, and for an AuxCommand-class slice
\* that is shorter than the reply type of the hint or that starts with STX
\* and carries another LEN byte; a longer slice is decoded from its first
\* bytes, and a slice of another class fails with the message-type error.
C16_HintDecides ==
    /\ C16_HintSelects
    /\ (op = "ReplyVariant::from_aux_buf" /\ HintReply(hint) # None)
        => /\ (Len(input) < MIN_MESSAGE \/ Len(input) > MAX_MESSAGE)
               => res = ErrMessageLength
           /\ (/\ Len(input) >= MIN_MESSAGE
                /\ Len(input) <= MAX_MESSAGE
                /\ ClassOf(input) # "AuxCommand")
               => res = ErrAuxMessageType
           /\ (/\ Len(input) >= MIN_MESSAGE
                /\ Len(input) <= MAX_MESSAGE
                /\ ClassOf(input) = "AuxCommand"
                /\ \/ Len(input) < HintLen(hint)
                   \/ At(input, index_STX) = STX /\ At(input, index_LEN) # HintLen(hint))
               => res = ErrReplyLength
           /\ (/\ Len(input) > HintLen(hint)
                /\ ValidFrame(Slice(input, 0, HintLen(hint)), HintLen(hint))
                /\ ClassOf(input) = "AuxCommand")
               => (res = Ok /\ buf = Slice(input, 0, HintLen(hint)))

\* a frame of another aux reply type, valid but of a length other than that
\* of the reply type of the hint, was rejected for its length
C16_Witness ==
    /\ op = "ReplyVariant::from_aux_buf"
    /\ hint = "QueryVariantName"
    /\ ValidFrame(input, 14)
    /\ ClassOf(input) = "AuxCommand"
    /\ res = ErrReplyLength

\* the classes ReplyVariant::from_buf has an arm for
ReplyClasses == {"OmnibusReply", "FirmwareDownload", "Extended"}

\* C17: ReplyVariant::from_buf returns an error for every buffer whose
\* control byte decodes to class OmnibusCommand, OmnibusBookmark, Calibrate,
\* Reserved or AuxCommand, so it succeeds only on buffers of class
\* OmnibusReply, FirmwareDownload or Extended.
C17_OnlyReplyClasses ==
    op = "ReplyVariant::from_buf"
    => /\ (/\ InBounds(input, index_CONTROL)
            /\ ClassOf(input) \in
                 {"OmnibusCommand", "OmnibusBookmark", "Calibrate", "Reserved", "AuxCommand"})
           => (IsErr(res) /\ ty = None)
       /\ res = Ok => ClassOf(input) \in ReplyClasses

\* a well-formed AuxCommand-class frame was refused by ReplyVariant::from_buf
C17_Witness ==
    /\ op = "ReplyVariant::from_buf"
    /\ ValidFrame(input, QUERY_VARIANT_NAME_REPLY)
    /\ ClassOf(input) = "AuxCommand"
    /\ res = ErrNotReply

\* ------------------------------------------------------------------------
\* The command resolver on slices from the wire
\* ------------------------------------------------------------------------

\* the types CommandVariant has a variant for
CommandTypes ==
    {"OmnibusCommand", "QueryValueTableCommand", "QueryExtendedNoteSpecification",
     "SetExtendedNoteInhibitsCFSC", "SetExtendedNoteInhibitsSC",
     "QueryBootPartNumberCommand", "QueryApplicationPartNumberCommand",
     "QueryDeviceCapabilitiesCommand", "QueryVariantPartNumberCommand",
     "QueryVariantNameCommand", "SoftReset"}

\* values written over the auxiliary command byte
AuxValues == {0, 2, 6, 7, 8, 9, 13, 14, 127, 85}

\* slices handed to the command resolver: each command as built and sealed,
\* damaged in one place, every prefix of it down to the empty slice, and one
\* slice longer than the longest message
CommandInputs ==
    UNION {
        LET w == calculate_checksum(New(t)) IN
        {Damage(w, d) : d \in DamageChoices}
            \cup {calculate_checksum(Put(w, aux_command_index_COMMAND, v)) : v \in AuxValues}
            \cup {BadChecksum(w, Len(w))}
            \cup Prefixes(w) :
        t \in CommandTypes}
      \cup {Zeros(MAX_MESSAGE + 1)}

InitCommand ==
    /\ input \in CommandInputs
    /\ op = "slice"
    /\ ty = None
    /\ buf = <<>>
    /\ hint = None
    /\ res = None
    /\ steps = 0

CommandTryFrom ==
    /\ op = "slice"
    /\ LET r == CommandVariant_try_from(input) IN
         /\ res' = r.res
         /\ ty' = r.variant
         /\ buf' = r.buf
    /\ op' = "CommandVariant::try_from"
    /\ UNCHANGED <<input, hint, steps>>

NextCommand == CommandTryFrom

SpecCommand == InitCommand /\ [][NextCommand]_vars

\* C18: CommandVariant::try_from never panics: for every byte slice of any
\* length, lengths 0, 1 and 2 included, it returns a decoded CommandVariant
\* or an error value.
C18_TryFromNeverPanics ==
    op = "CommandVariant::try_from" => res # Panic

\* ------------------------------------------------------------------------
\* The free functions checksum and validate_checksum on arbitrary slices
\* ------------------------------------------------------------------------

\* slices of every length up to this one are enumerated byte by byte
MaxSliceLen == 6

\* the byte values the enumerated slices are made of
SliceBytes == {0, 3, 85, 255}

\* every slice of n bytes over SliceBytes
RECURSIVE SlicesOfLen(_)
SlicesOfLen(n) ==
    IF n = 0 THEN {<<>>}
    ELSE {Append(w, b) : w \in SlicesOfLen(n - 1), b \in SliceBytes}

\* the enumerated slices, every message as built and sealed, the same with
\* the checksum byte spoiled, and slices at and beyond the longest message
ChecksumInputs ==
    UNION {SlicesOfLen(n) : n \in 0..MaxSliceLen}
        \cup {calculate_checksum(New(t)) : t \in Types}
        \cup {BadChecksum(calculate_checksum(New(t)), len(New(t))) : t \in Types}
        \cup {Zeros(MAX_MESSAGE), Put(Zeros(MAX_MESSAGE), MAX_MESSAGE - 1, 85),
              Put(Put(Zeros(MAX_MESSAGE), 1, 85), MAX_MESSAGE - 1, 85),
              Zeros(MAX_MESSAGE + 1)}

InitChecksum ==
    /\ input \in ChecksumInputs
    /\ op = "slice"
    /\ ty = None
    /\ buf = <<>>
    /\ hint = None
    /\ res = None
    /\ steps = 0

\* validate_checksum(input)
ValidateChecksum ==
    /\ op = "slice"
    /\ res' = validate_checksum(input)
    /\ op' = "validate_checksum"
    /\ UNCHANGED <<ty, buf, input, hint, steps>>

\* checksum(input); the byte returned is kept in buf
Checksum ==
    /\ op = "slice"
    /\ buf' = <<checksum(input)>>
    /\ res' = Ok
    /\ op' = "checksum"
    /\ UNCHANGED <<ty, input, hint, steps>>

NextChecksum == ValidateChecksum \/ Checksum

SpecChecksum == InitChecksum /\ [][NextChecksum]_vars

\* the XOR of the bytes of w, bit by bit: bit k is the parity of the number
\* of bytes of w that have bit k set
XorOfAll(w) ==
    LET ones(k) == Cardinality({i \in 1..Len(w) : Bit(w[i], k) = 1}) % 2
    IN ones(0) + ones(1) * 2 + ones(2) * 4 + ones(3) * 8
         + ones(4) * 16 + ones(5) * 32 + ones(6) * 64 + ones(7) * 128

\* C19: validate_checksum(buf) fails with the invalid-length error exactly
\* when buf.len() is outside [5, 255]; otherwise it succeeds exactly when the
\* XOR of buf[1 .. len-2] equals buf[len-1] and fails with the
\* checksum-mismatch error when they disagree; checksum of the empty slice
\* is 0 (and checksum of any slice is the XOR of its bytes).
C19_ValidateChecksum ==
    /\ op = "validate_checksum"
        => LET n == Len(input) IN
           IF n < MIN_MESSAGE \/ n > MAX_MESSAGE
           THEN res = ErrMessageLength
           ELSE IF XorOfAll(Slice(input, 1, n - 2)) = At(input, n - 1)
           THEN res = Ok
           ELSE res = ErrChecksum
    /\ op = "checksum"
        => /\ buf = <<XorOfAll(input)>>
           /\ input = <<>> => buf = <<0>>

\* a slice starting with STX whose non-zero trailing byte is the XOR of
\* bytes 1 .. len-2 was accepted
C19_Witness ==
    /\ op = "validate_checksum"
    /\ Len(input) >= MIN_MESSAGE
    /\ At(input, index_STX) = STX
    /\ At(input, Len(input) - 1) # 0
    /\ res = Ok

\* ------------------------------------------------------------------------
\* The control byte: every raw byte through Control::from
\* ------------------------------------------------------------------------

InitControl ==
    /\ input \in {<<b>> : b \in 0..255}
    /\ op = "byte"
    /\ ty = None
    /\ buf = <<>>
    /\ hint = None
    /\ res = None
    /\ steps = 0

\* u8::from(Control::from(b))
ControlFrom ==
    /\ op = "byte"
    /\ buf' = <<Control_as_u8(Control_from(At(input, 0)))>>
    /\ op' = "Control::from"
    /\ UNCHANGED <<ty, input, hint, res, steps>>

\* the three fields read from the Control and set again on an empty one
ControlReencode ==
    /\ op = "Control::from"
    /\ LET c == At(buf, 0)
           d == Control_set_message_type(
                    Control_set_device_type(
                        Control_set_acknak(0, Control_acknak(c)),
                        Control_device_type(c)),
                    Control_message_type(c))
       IN buf' = <<Control_as_u8(d)>>
    /\ op' = "Control::reencode"
    /\ UNCHANGED <<ty, input, hint, res, steps>>

NextControl == ControlFrom \/ ControlReencode

SpecControl == InitControl /\ [][NextControl]_vars

\* b & 0x7F
LowSeven(b) == IF b >= 128 THEN b - 128 ELSE b

\* C20: for every raw byte b, u8::from(Control::from(b)) = b & 0x7F, the
\* Control reads ACK/NAK from bit 0, the device type from bits 1-3 and the
\* message-type-class from bits 4-6 of b, and reading the fields and setting
\* them again gives b & 0x7F.
C20_ControlMasksBitSeven ==
    LET b == At(input, 0) IN
    /\ op = "Control::from"
        => /\ buf = <<LowSeven(b)>>
           /\ Control_acknak(At(buf, 0)) = b % 2
           /\ Control_device_type(At(buf, 0)) = (b \div 2) % 8
           /\ Control_message_type(At(buf, 0)) = (b \div 16) % 8
    /\ op = "Control::reencode" => buf = <<LowSeven(b)>>

\* a raw byte with bit 7 set has come out of Control::from without it
C20_Witness ==
    /\ op = "Control::from"
    /\ At(input, 0) >= 128
    /\ buf = <<At(input, 0) - 128>>
    /\ Control_message_type(At(buf, 0)) = 7

\* every byte but the control byte is the same in two buffers
SameButControl(a, b) ==
    /\ Len(a) = Len(b)
    /\ \A i \in 0..(Len(a) - 1) : i # index_CONTROL => At(a, i) = At(b, i)

\* C21: on any message in any state, set_acknak, set_device_type and
\* set_message_type each leave the decoded values of the other two control
\* fields as they were, for all eight classes and both in-range device
\* types, and change no byte other than the control byte.
C21_ControlFieldIsolation ==
    [][/\ op' = "set_acknak"
           => /\ device_type(buf') = device_type(buf)
              /\ message_type(buf') = message_type(buf)
              /\ SameButControl(buf', buf)
       /\ op' = "set_device_type"
           => /\ acknak(buf') = acknak(buf)
              /\ message_type(buf') = message_type(buf)
              /\ SameButControl(buf', buf)
       /\ op' = "set_message_type"
           => /\ acknak(buf') = acknak(buf)
              /\ device_type(buf') = device_type(buf)
              /\ SameButControl(buf', buf)]_vars

\* the class was set on a message whose device type had been set to
\* BillRecycler before, and the device type is still BillRecycler
C21_Witness ==
    /\ op = "set_message_type"
    /\ steps = 2
    /\ device_type(buf) = "BillRecycler"
    /\ message_type(buf) = "Calibrate"

\* ------------------------------------------------------------------------
\* Every u16 and every u8 packed into nibbles and unpacked again
\* ------------------------------------------------------------------------

\* input holds the number given; buf the packed bytes
InitSevenBit ==
    /\ input \in {<<n>> : n \in 0..65535}
    /\ op = "number"
    /\ ty = None
    /\ buf = <<>>
    /\ hint = None
    /\ res = None
    /\ steps = 0

\* u16_seven_bit(n)
PackU16 ==
    /\ op = "number"
    /\ buf' = u16_seven_bit(input[1])
    /\ op' = "u16_seven_bit"
    /\ UNCHANGED <<ty, input, hint, res, steps>>

\* seven_bit_u16(packed); the number returned is appended to input
UnpackU16 ==
    /\ op = "u16_seven_bit"
    /\ input' = Append(input, seven_bit_u16(buf))
    /\ op' = "seven_bit_u16"
    /\ UNCHANGED <<ty, buf, hint, res, steps>>

\* u8_seven_bit(n)
PackU8 ==
    /\ op = "number"
    /\ input[1] <= 255
    /\ buf' = u8_seven_bit(input[1])
    /\ op' = "u8_seven_bit"
    /\ UNCHANGED <<ty, input, hint, res, steps>>

\* seven_bit_u8(packed); the number returned is appended to input
UnpackU8 ==
    /\ op = "u8_seven_bit"
    /\ input' = Append(input, seven_bit_u8(buf))
    /\ op' = "seven_bit_u8"
    /\ UNCHANGED <<ty, buf, hint, res, steps>>

NextSevenBit == PackU16 \/ UnpackU16 \/ PackU8 \/ UnpackU8

SpecSevenBit == InitSevenBit /\ [][NextSevenBit]_vars

\* C22: for every u16 n, seven_bit_u16(u16_seven_bit(n)) = n, and for
\* every u8 n, seven_bit_u8(u8_seven_bit(n)) = n; every packed byte holds
\* four significant bits in its low nibble, most significant nibble first.
C22_SevenBitInverse ==
    /\ op \in {"u16_seven_bit", "seven_bit_u16"}
        => /\ Len(buf) = 4
           /\ \A i \in 1..4 : buf[i] \in 0..15
           /\ buf[1] * 4096 + buf[2] * 256 + buf[3] * 16 + buf[4] = input[1]
    /\ op = "seven_bit_u16" => input[2] = input[1]
    /\ op \in {"u8_seven_bit", "seven_bit_u8"}
        => /\ Len(buf) = 2
           /\ \A i \in 1..2 : buf[i] \in 0..15
           /\ buf[1] * 16 + buf[2] = input[1]
    /\ op = "seven_bit_u8" => input[2] = input[1]

\* 0x1234 was packed into 1, 2, 3, 4 and unpacked to 0x1234 again
C22_Witness ==
    /\ op = "seven_bit_u16"
    /\ buf = <<1, 2, 3, 4>>
    /\ input = <<4660, 4660>>

IncrementStep ==
    LET before == packet_number(ty, buf)
        ret == input'[1]
    IN /\ ret = (IF before = 65535 THEN 0 ELSE before + 1)
       /\ packet_number(ty, buf') = ret
       /\ ty = "FlashDownloadMessage7bit"
            => Slice(buf', 3, 7)
                 = <<ret \div 4096, (ret \div 256) % 16, (ret \div 16) % 16, ret % 16>>
       /\ ty \in {"FlashDownloadMessage8bit_64", "FlashDownloadMessage8bit_32"}
            => Slice(buf', 3, 5) = <<ret % 256, ret \div 256>>
       /\ \A i \in 0..(Len(buf) - 1) :
            (i < 3 \/ i > 6) => At(buf', i) = At(buf, i)

AllZeros(self) == \A i \in 1..Len(self) : self[i] = 0

\* C25: is_empty returns true if and only if every byte of the message
\* buffer is 0.
C25_IsEmptyIffAllZeros ==
    op = "is_empty" => ((res = "true") <=> AllZeros(buf))

\* C26: after calculate_checksum() or as_bytes() on any message in any
\* state, validate_checksum() of the message and the free validate_checksum
\* on the bytes both succeed, no byte other than the last has been
\* modified, and calling it again changes nothing.
C26_ChecksumSealed ==
    [][op' \in {"calculate_checksum", "as_bytes"}
        => /\ Len(buf') = Len(buf)
           /\ \A i \in 0..(Len(buf) - 2) : At(buf', i) = At(buf, i)
           /\ At(buf', Len(buf) - 1) = XorOfAll(Slice(buf, 1, Len(buf) - 2))
           /\ MessageOps_validate_checksum(buf') = Ok
           /\ validate_checksum(buf') = Ok
           /\ calculate_checksum(buf') = buf'
           /\ as_bytes(buf') = buf'
           /\ op \in {"calculate_checksum", "as_bytes"} => buf' = buf]_vars

\* as_bytes sealed a message that a setter had changed: the checksum byte
\* is not the one of the message as built
C26_Witness ==
    /\ op = "as_bytes"
    /\ steps = 2
    /\ At(buf, Len(buf) - 1) # At(calculate_checksum(New(ty)), Len(buf) - 1)
    /\ At(buf, Len(buf) - 1) # 0
    /\ validate_checksum(buf) = Ok

\* the reply types decoded with the command hint
AuxReplyTypes == {HintReply(c) : c \in AuxCommands} \ {None}

\* the slice was decoded with the entry point that matches the reply type R
MatchingEntry(R) ==
    IF R \in AuxReplyTypes
    THEN op = "ReplyVariant::from_aux_buf" /\ HintReply(hint) = R
    ELSE op = "ReplyVariant::from_buf"

\* C27: every case of ReplyVariant is producible by decoding: for every
\* reply type R of ReplyVariant, the bytes of a valid message of R (R::new()
\* with the checksum computed) decoded with the matching entry point give
\* the case for R holding a message equal to it.
C27_EveryCaseProducible ==
    \A R \in ReplyTypes :
        (MatchingEntry(R) /\ input = as_bytes(New(R)))
        => (res = Ok /\ ty = R /\ buf = input)

\* C28: on every message, for every AckNak a, every DeviceType d and every
\* one of the 8 MessageType values t (Reserved included), set_acknak(a) then
\* acknak() returns a, set_device_type(d) then device_type() returns d, and
\* set_message_type(t) then message_type() returns t.
C28_ControlSettersRoundTrip ==
    [][/\ op' = "set_acknak"
           => \A a \in AckNaks : buf' = set_acknak(buf, a) => acknak(buf') = a
       /\ op' = "set_device_type"
           => \A d \in DeviceTypes :
                buf' = set_device_type(buf, d) => device_type(buf') = d
       /\ op' = "set_message_type"
           => \A t \in MessageTypes :
                buf' = set_message_type(buf, t) => message_type(buf') = t]_vars

\* C29: the power-up policy field round-trips: for every PowerUp p in
\* {A, B, C, Reserved}, set_power_up(p) followed by power_up() returns p,
\* the 2-bit patterns 0b00, 0b01, 0b10, 0b11 being A, B, C, Reserved.
C29_PowerUpRoundTrip ==
    [][op' = "set_power_up"
        => \A p \in PowerUps :
             buf' = set_power_up(buf, p)
             => /\ power_up(buf') = p
                /\ Configuration_power_up(configuration(buf'))
                     = (CASE p = "A" -> 0 [] p = "B" -> 1 [] p = "C" -> 2 [] OTHER -> 3)]_vars

\* the resolver returned an error value
ReturnsError(r) == r.res # Ok /\ r.res # Panic

\* both calls return an error, or both succeed with the same reply type
\* holding the same bytes
BothErrOrSameOk(a, b) ==
    \/ ReturnsError(a) /\ ReturnsError(b)
    \/ a.res = Ok /\ b.res = Ok /\ a.variant = b.variant /\ a.buf = b.buf

\* what the resolver that ran returned
Returned == [res |-> res, variant |-> ty, buf |-> buf]

\* C30: the two public reply resolvers agree: for every slice and every
\* AuxCommand hint, MessageVariant::from_buf and ReplyVariant::from_buf
\* (MessageVariant::from_aux_buf and ReplyVariant::from_aux_buf) either both
\* return an error or both succeed with the same reply type holding
\* identical bytes.
C30_ResolversAgree ==
    /\ op = "MessageVariant::from_buf"
         => BothErrOrSameOk(Returned, ReplyVariant_from_buf(input))
    /\ op = "MessageVariant::from_aux_buf"
         => BothErrOrSameOk(Returned, ReplyVariant_from_aux_buf(input, hint))

====
